---- MODULE Spec2Model ----
(***************************************************************************)
(* Model of the workflow orchestration engine of autobots:                 *)
(*   src/src/workflowmanager.py  AutoWorkflowManager, SequentialWorkflow-  *)
(*                               Manager, Extended*Agent.receive           *)
(*   src/src/autogenchat.py      AutoGenChatManager.chat/_generate_output  *)
(*   src/src/datamodel.py        Workflow validation, run_workflow         *)
(*   src/src/utils/utils.py      extract_successful_code_blocks, ...       *)
(* Text is modelled as a sequence of tokens, so that concatenation and     *)
(* equality of contents are computed, not assumed.                         *)
(***************************************************************************)
EXTENDS Integers, Sequences, FiniteSets, TLC

VARIABLES
    workflow,               \* the caller's workflow description (dict), as it is when passed
    description,            \* the caller's dict object, as it is now
    usage_data,             \* a usage-summary structure handed to find_key_value
    found,                  \* what find_key_value returned
    class_workflow,         \* WorkflowManager.workflow, the attribute __new__ sets on the class
    factory,                \* each caller of WorkflowManager(...): position, argument, outcome
    work_dir,               \* the entries of the working directory
    writes,                 \* whether the code the agents execute writes files there
    clear_work_dir,         \* the clear_work_dir argument of the caller
    history,                \* the prior history the caller supplies
    entry,                  \* how the caller enters: run / ctor / chat / run_workflow
    message,                \* the caller's message text
    send_message_function,  \* TRUE when an observer callable is attached
    connection_id,          \* the connection id, or None
    environ,                \* os.environ: the names of the environment variables that are set
    client_reply,           \* the text the model endpoint returns to a summarization call
    sink_raises,            \* the envelope types on which the observer callable raises
    pc,                     \* position of the control flow
    error,                  \* the exception that left the run, or None
    a_workflow,             \* AutoWorkflowManager.workflow (a stage's sub-workflow in a sequential run)
    a_message,              \* message parameter of AutoWorkflowManager.run
    run_history,            \* history parameter of AutoWorkflowManager.run
    sender,                 \* AutoWorkflowManager.sender
    receiver,               \* AutoWorkflowManager.receiver
    agent_history,          \* AutoWorkflowManager.agent_history (the transcript)
    idx,                    \* index of the loop over workflow["agents"]
    hpos,                   \* index of the loop of _populate_history
    live,                   \* state of the exchange in progress
    stage,                  \* SequentialWorkflowManager: enumerate index i (1-based)
    sequential_history,     \* SequentialWorkflowManager._run_workflow local
    seq_agent_history,      \* SequentialWorkflowManager.agent_history
    model_client,           \* SequentialWorkflowManager.model_client
    output,                 \* local `output` of run(), between _generate_output and the return
    result,                 \* the Message returned by the innermost finished run()
    chat_result,            \* the Message returned by AutoGenChatManager.chat
    sink,                   \* envelopes handed to send_message_function, in order
    received,               \* calls of the agents' own (library) receive, in order
    calls,                  \* calls of the wrapped agents' receive, in order
    log                     \* events of the run, in order (loads, replays, exchanges, external calls)

vars == <<workflow, description, usage_data, found, class_workflow, factory,
          work_dir, writes, clear_work_dir, history, entry, message, send_message_function, connection_id,
          environ, client_reply, sink_raises, pc, error, a_workflow, a_message, run_history, sender, receiver,
          agent_history, idx, hpos, live, stage, sequential_history,
          seq_agent_history, model_client, output, result, chat_result, sink,
          received, calls, log>>

\* what the caller passes, and with it the caller's dict object
args == <<workflow, history, entry, message, send_message_function, connection_id,
          environ, client_reply, sink_raises, usage_data, found,
          class_workflow, factory, writes, clear_work_dir>>
inputs == <<args, description, work_dir>>

----------------------------------------------------------------------------
(* Bounds of the model *)

MaxAgents == 3
MaxHist == 2
MaxMembers == 2
MaxAutoReply == 1
MaxRound == 2
MaxHook == 3
MaxEntries == 2
MaxLiveAgents == 2

(* Program constants *)

UserProxyMaxAutoReply == 1
TermWindow == 20

None == "None"

\* "no agent" (Python None where an agent is expected)
NoAgent == [name |-> <<>>, class |-> None, client |-> FALSE, config_list |-> <<>>,
            max_consecutive_auto_reply |-> 0, is_termination_msg |-> None,
            code_execution_config |-> None, built_from |-> <<>>, members |-> <<>>]

\* "no workflow", "no message returned"
NoWorkflow == [name |-> None, type |-> None, summary_method |-> None, agents |-> <<>>]
NoResult == [role |-> None, content |-> <<>>, messages |-> <<>>, summary_method |-> None,
             usage |-> <<>>, task |-> <<>>]

----------------------------------------------------------------------------
(* Text: sequences of tokens *)

RECURSIVE Join(_, _)
\* sep.join(parts)
Join(parts, sep) ==
    IF parts = <<>> THEN <<>>
    ELSE IF Len(parts) = 1 THEN parts[1]
    ELSE parts[1] \o sep \o Join(Tail(parts), sep)

RECURSIVE Concat(_)
Concat(parts) == IF parts = <<>> THEN <<>> ELSE parts[1] \o Concat(Tail(parts))

Whitespace == {" ", "\n"}

RECURSIVE rstrip(_)
rstrip(s) ==
    IF s # <<>> /\ s[Len(s)] \in Whitespace THEN rstrip(SubSeq(s, 1, Len(s) - 1)) ELSE s

RECURSIVE lstrip(_)
lstrip(s) == IF s # <<>> /\ s[1] \in Whitespace THEN lstrip(Tail(s)) ELSE s

strip(s) == lstrip(rstrip(s))

\* s[-n:]
LastN(s, n) == IF Len(s) <= n THEN s ELSE SubSeq(s, Len(s) - n + 1, Len(s))

\* the default termination predicate installed by sanitize_agent
is_termination_msg(content) ==
    LET w == LastN(rstrip(content), TermWindow)
    IN  \E k \in 1..Len(w) : w[k] = "TERMINATE"

----------------------------------------------------------------------------
(* Nested data (dicts, lists, numbers, None), and utils.find_key_value *)

Null == [t |-> "null", v |-> 0, items |-> <<>>]
Num(n) == [t |-> "int", v |-> n, items |-> <<>>]
\* a dict: its items <<[k, val], ...>> in insertion order; a list: its elements
DictOf(items) == [t |-> "dict", v |-> 0, items |-> items]
ListOf(items) == [t |-> "list", v |-> 0, items |-> items]

\* the first result of the sequence that is not None, else None
FirstNotNone(rs) ==
    IF \E i \in 1..Len(rs) : rs[i] # Null
    THEN rs[CHOOSE i \in 1..Len(rs) : rs[i] # Null /\ \A j \in 1..(i - 1) : rs[j] = Null]
    ELSE Null

RECURSIVE find_key_value(_, _)
\* utils.find_key_value
find_key_value(data, target_key) ==
    IF data.t = "dict"
    THEN IF \E i \in 1..Len(data.items) : data.items[i].k = target_key
         THEN data.items[CHOOSE i \in 1..Len(data.items) : data.items[i].k = target_key].val
         ELSE FirstNotNone([i \in 1..Len(data.items) |->
                 IF data.items[i].val.t \in {"dict", "list"}
                 THEN find_key_value(data.items[i].val, target_key)
                 ELSE Null])
    ELSE IF data.t = "list"
    THEN FirstNotNone([i \in 1..Len(data.items) |-> find_key_value(data.items[i], target_key)])
    ELSE Null

----------------------------------------------------------------------------
(* Messages, agent specs and runtime agents *)

\* a message handed to send/receive: plain text, or a dict with role and content
Text(c) == [dict |-> FALSE, role |-> None, content |-> c]
Dict(r, c) == [dict |-> TRUE, role |-> r, content |-> c]

AgentType == {"assistant", "userproxy", "groupchat"}
WorkFlowSummaryMethod == {"last", "llm", "none"}
WorkFlowType == {"autonomous", "sequential"}

Ok(a) == [ok |-> TRUE, agent |-> a, error |-> None]
Raise(e) == [ok |-> FALSE, agent |-> NoAgent, error |-> e]

\* utils.sanitize_model: only the valid keys whose value is neither None nor ""
valid_keys == {"model", "base_url", "api_key", "api_type", "api_version"}

\* variant: the entry is forwarded as it was given
sanitize_model_keepall(model) == model

sanitize_model(model) ==
    [k \in {k \in DOMAIN model \cap valid_keys : model[k] \notin {None, ""}} |-> model[k]]

\* the credential test of sanitize_agent on one config_list entry
HasCredential(llm) == "api_key" \in DOMAIN llm \/ "OPENAI_API_KEY" \in environ

\* the exception that leaves sanitize_agent for an entry without credential:
\* the error message is formatted with agent.config.name, and agent.config is a
\* dict, so the attribute lookup raises before the ValueError is built
MissingCredential(spec) == "AttributeError"

\* AutoWorkflowManager.sanitize_agent: Agent.model_validate, then every entry
\* of llm_config.config_list is tested and sanitized, in order
\* the predicate sanitize_agent installs, and the one the library gives a
\* participant that is constructed without one
default_predicate == "sanitize_default"
library_predicate == "library_default"

\* values Python's `or` treats as unset
Falsy == {None, "False", ""}

\* self.code_executor_pool: the profiles built by __init__
code_executor_pool ==
    [local |-> "LocalCommandLineCodeExecutor", docker |-> "DockerCommandLineCodeExecutor"]

\* values that cannot be used as a dict key (a dict, a list)
Unhashable == {"dict", "list"}

sanitize_agent(spec) ==
    IF spec.type \notin AgentType THEN Raise("ValidationError")
    ELSE IF "is_termination_msg" \notin DOMAIN spec THEN Raise("KeyError:is_termination_msg")
    ELSE IF spec.llm /\ \E k \in 1..Len(spec.config_list) : ~HasCredential(spec.config_list[k])
    THEN Raise(MissingCredential(spec))
    ELSE IF "code_execution_config" \notin DOMAIN spec
    THEN Raise("KeyError:code_execution_config")
    ELSE IF spec.code_execution_config \in Unhashable THEN Raise("TypeError")
    ELSE Ok([spec EXCEPT
                !.is_termination_msg = IF @ \in Falsy THEN default_predicate ELSE @,
                !.config_list =
                    [k \in 1..Len(spec.config_list) |-> sanitize_model(spec.config_list[k])],
                !.code_execution_config =
                    IF @ \in DOMAIN code_executor_pool THEN code_executor_pool[@]
                    ELSE "False"])

\* the name the library gives a group coordinator constructed without one
\* ("chat_manager"), written as a name of the model
chat_manager == <<-1>>

RECURSIVE load(_)
\* AutoWorkflowManager.load: the runtime agent built from an agent spec;
\* built_from is the identity of the description the object was built from
load(spec) ==
    IF "empty" \in DOMAIN spec THEN Raise("ValueError:empty_agent")
    ELSE LET linked_agents == spec.agents
             s == sanitize_agent(spec)
             agent == s.agent
         IN  IF ~s.ok THEN s
             ELSE IF spec.type = "groupchat" THEN
                 LET kids == [k \in 1..Len(linked_agents) |-> load(linked_agents[k])]
                     bad == {k \in 1..Len(kids) : ~kids[k].ok}
                 IN  IF bad # {} THEN kids[CHOOSE k \in bad : \A j \in bad : k <= j]
                     ELSE Ok([name |-> chat_manager,
                              class |-> "ExtendedGroupChatManager",
                              client |-> spec.llm,
                              config_list |-> agent.config_list,
                              max_consecutive_auto_reply |-> spec.max_consecutive_auto_reply,
                              is_termination_msg |-> library_predicate,
                              code_execution_config |-> "False",
                              built_from |-> spec.name,
                              members |-> [k \in 1..Len(kids) |-> kids[k].agent]])
             ELSE IF spec.type \in {"assistant", "userproxy"} THEN
                 Ok([name |-> spec.name,
                     class |-> "ExtendedConversableAgent",
                     client |-> spec.llm,
                     config_list |-> agent.config_list,
                     max_consecutive_auto_reply |-> spec.max_consecutive_auto_reply,
                     is_termination_msg |-> agent.is_termination_msg,
                     code_execution_config |-> agent.code_execution_config,
                     built_from |-> spec.name,
                     members |-> <<>>])
             ELSE Raise("ValueError:unknown_agent_type")

\* sanitize_agent assigns the sanitized list to agent.config["llm_config"],
\* the dict object of the caller's description (Agent.model_validate copies
\* the config dict, not the dicts inside it): it does so when validation, the
\* predicate lookup and the credential test have passed
Mutates(spec) ==
    /\ spec.type \in AgentType
    /\ "is_termination_msg" \in DOMAIN spec
    /\ spec.llm
    /\ \A k \in 1..Len(spec.config_list) : HasCredential(spec.config_list[k])

RECURSIVE sanitized_in_place(_)
\* the description dict after load(spec) has returned or raised: members are
\* loaded in order, up to the first that fails
sanitized_in_place(spec) ==
    IF "empty" \in DOMAIN spec THEN spec
    ELSE LET own == IF Mutates(spec)
                    THEN [spec EXCEPT !.config_list =
                            [k \in 1..Len(spec.config_list) |-> sanitize_model(spec.config_list[k])]]
                    ELSE spec
         IN  IF sanitize_agent(spec).ok /\ spec.type = "groupchat"
             THEN [own EXCEPT !.agents =
                     [k \in 1..Len(spec.agents) |->
                        IF \A j \in 1..(k - 1) : load(spec.agents[j]).ok
                        THEN sanitized_in_place(spec.agents[k])
                        ELSE spec.agents[k]]]
             ELSE own

\* the caller's dict after the node at position i has been loaded by a manager
\* that holds the dict itself (run_workflow and the sequential manager hand a
\* model_dump copy to the manager)
loaded_in_place(i) ==
    IF workflow.type = "autonomous" /\ entry # "run_workflow"
    THEN [description EXCEPT !.agents[i].agent = sanitized_in_place(@)]
    ELSE description

----------------------------------------------------------------------------
(* The interception pipeline.  A world w is the part of the state a        *)
(* receive touches: [agent_history, sink, received, calls], and exc, the   *)
(* exception that is propagating out of the call (None when there is none).*)

\* variant: only a true request_reply records
Recorded_truthy(request_reply, sender_type) ==
    request_reply = "True" \/ sender_type = "groupchat"

\* the test of process_message that decides whether the entry is recorded;
\* request_reply is "True", "False" or "None"
Recorded(request_reply, sender_type) ==
    request_reply # "False" \/ sender_type = "groupchat"

\* variant: a recorded entry is not handed to the observer
process_message_unsent(w, from, to, msg, request_reply, silent, sender_type) ==
    LET m == IF msg.dict THEN [role |-> msg.role, content |-> msg.content]
                         ELSE [role |-> "user", content |-> msg.content]
        message_payload == [recipient |-> to.name,
                            sender |-> from.name,
                            message |-> m,
                            sender_type |-> sender_type,
                            connection_id |-> connection_id,
                            message_type |-> "agent_message"]
    IN  IF Recorded(request_reply, sender_type)
        THEN [w EXCEPT !.agent_history = Append(@, message_payload)]
        ELSE w

\* variant: the transcript keeps only the newest entry
process_message_overwrite(w, from, to, msg, request_reply, silent, sender_type) ==
    LET m == IF msg.dict THEN [role |-> msg.role, content |-> msg.content]
                         ELSE [role |-> "user", content |-> msg.content]
        message_payload == [recipient |-> to.name,
                            sender |-> from.name,
                            message |-> m,
                            sender_type |-> sender_type,
                            connection_id |-> connection_id,
                            message_type |-> "agent_message"]
    IN  IF Recorded(request_reply, sender_type)
        THEN [w EXCEPT
                !.agent_history = <<message_payload>>,
                !.sink = IF send_message_function
                         THEN Append(@, [type |-> "agent_message",
                                         data |-> message_payload,
                                         connection_id |-> connection_id])
                         ELSE @,
                !.exc = IF send_message_function /\ "agent_message" \in sink_raises
                        THEN "SinkError" ELSE @]
        ELSE w

\* AutoWorkflowManager.process_message
process_message(w, from, to, msg, request_reply, silent, sender_type) ==
    LET m == IF msg.dict THEN [role |-> msg.role, content |-> msg.content]
                         ELSE [role |-> "user", content |-> msg.content]
        message_payload == [recipient |-> to.name,
                            sender |-> from.name,
                            message |-> m,
                            sender_type |-> sender_type,
                            connection_id |-> connection_id,
                            message_type |-> "agent_message"]
    IN  IF Recorded(request_reply, sender_type)
        THEN [w EXCEPT
                !.agent_history = Append(@, message_payload),
                !.sink = IF send_message_function
                         THEN Append(@, [type |-> "agent_message",
                                         data |-> message_payload,
                                         connection_id |-> connection_id])
                         ELSE @,
                !.exc = IF send_message_function /\ "agent_message" \in sink_raises
                        THEN "SinkError" ELSE @]
        ELSE w

\* the wrapped agent's own receive (library): the message reaches the agent
agent_receive(w, to, from, msg, request_reply, silent) ==
    IF w.exc # None THEN w
    ELSE [w EXCEPT !.received = Append(@, [to |-> to.name, from |-> from.name, message |-> msg,
                                           request_reply |-> request_reply, silent |-> silent])]

\* ExtendedConversableAgent.receive
ExtendedConversableAgent_receive(w, to, from, msg, request_reply, silent) ==
    agent_receive(process_message(w, from, to, msg, request_reply, silent, "agent"),
                  to, from, msg, request_reply, silent)

\* ExtendedGroupChatManager.receive
ExtendedGroupChatManager_receive(w, to, from, msg, request_reply, silent) ==
    agent_receive(process_message(w, from, to, msg, request_reply, silent, "groupchat"),
                  to, from, msg, request_reply, silent)

\* dispatch of recipient.receive on the recipient's class
receive(w, to, from, msg, request_reply, silent) ==
    IF w.exc # None THEN w
    ELSE LET c == [w EXCEPT !.calls = Append(@, [to |-> to.name, from |-> from.name,
                                                message |-> msg,
                                                request_reply |-> request_reply,
                                                silent |-> silent])]
         IN  IF to.class = "ExtendedGroupChatManager"
             THEN ExtendedGroupChatManager_receive(c, to, from, msg, request_reply, silent)
             ELSE ExtendedConversableAgent_receive(c, to, from, msg, request_reply, silent)

\* participant capability send(message, to, requestReply, silent): hands the
\* message to the recipient's receive with the same flags
send(w, from, to, msg, request_reply, silent) ==
    receive(w, to, from, msg, request_reply, silent)

World == [agent_history |-> agent_history, sink |-> sink, received |-> received,
          calls |-> calls, exc |-> None]

SetWorld(w) ==
    /\ agent_history' = w.agent_history
    /\ sink' = w.sink
    /\ received' = w.received
    /\ calls' = w.calls

----------------------------------------------------------------------------
(* The caller's inputs *)

AgentName(i) == <<i>>
MemberName(i, j) == <<i, j>>
user_proxy_name == <<0>>

\* an agent description; llm is FALSE when llm_config is False, and an agent
\* with llm_config has one model entry with its own key
AgentSpec(name, type, llm, kids) ==
    [name |-> name, type |-> type, llm |-> llm,
     config_list |-> IF llm THEN <<[model |-> "gpt-4", api_key |-> "sk"]>> ELSE <<>>,
     max_consecutive_auto_reply |-> MaxAutoReply, is_termination_msg |-> None,
     code_execution_config |-> "False", agents |-> kids]

\* the agent nodes a workflow may hold at position i of its agents list
Nodes(i) ==
    { [link |-> "sender", agent |-> AgentSpec(AgentName(i), "userproxy", FALSE, <<>>)],
      [link |-> "receiver", agent |-> AgentSpec(AgentName(i), "assistant", TRUE, <<>>)],
      [link |-> "receiver",
       agent |-> AgentSpec(AgentName(i), "groupchat", TRUE,
                    [j \in 1..MaxMembers |->
                        AgentSpec(MemberName(i, j), "assistant", TRUE, <<>>)])] }

\* nodes whose spec cannot be built: a type outside AgentType, at the top
\* level or on the last member of a group
UnknownType == "planner"
FaultyNodes(i) ==
    { [link |-> "sender", agent |-> AgentSpec(AgentName(i), UnknownType, FALSE, <<>>)],
      [link |-> "receiver", agent |-> AgentSpec(AgentName(i), UnknownType, TRUE, <<>>)],
      [link |-> "receiver",
       agent |-> AgentSpec(AgentName(i), "groupchat", TRUE,
                    [j \in 1..MaxMembers |->
                        AgentSpec(MemberName(i, j),
                                  IF j = MaxMembers THEN UnknownType ELSE "assistant",
                                  TRUE, <<>>)])] }

AgentLists ==
    UNION { {a \in [1..n -> UNION {Nodes(i) : i \in 1..n}] : \A i \in 1..n : a[i] \in Nodes(i)}
            : n \in 0..MaxAgents }

\* agent lists with at least one node that cannot be built
FaultyAgentLists ==
    UNION { {a \in [1..n -> UNION {Nodes(i) \cup FaultyNodes(i) : i \in 1..n}] :
                /\ \A i \in 1..n : a[i] \in Nodes(i) \cup FaultyNodes(i)
                /\ \E i \in 1..n : a[i] \in FaultyNodes(i)}
            : n \in 1..MaxAgents }

SummaryMethods == WorkFlowSummaryMethod \cup {"verbose"}

Workflows ==
    { [name |-> "wf", type |-> t, summary_method |-> m, agents |-> a] :
        t \in WorkFlowType, m \in SummaryMethods, a \in AgentLists }

\* prior history: Message records with role and content
HistToken(k) == <<"h1", "h2", "h3", "h4">>[k]
HistoryMsg(k, r) == [role |-> r, content |-> <<HistToken(k)>>]
Histories ==
    UNION { {h \in [1..n -> {HistoryMsg(k, r) : k \in 1..n, r \in {"user", "assistant"}}] :
                \A k \in 1..n : h[k].content = <<HistToken(k)>>}
            : n \in 0..MaxHist }

Entries == {"run", "ctor", "chat", "run_workflow"}

\* the history argument of manager.run() for each way in; an absent (None)
\* history is the empty list, which `if history:` treats alike
RunHistoryArg ==
    IF entry \in {"run", "run_workflow"} THEN history ELSE <<>>

\* the observer and connection id a caller may pass
Observers == {<<TRUE, "c1">>, <<FALSE, None>>, <<FALSE, "c1">>}

\* the texts the model endpoint may return to a summarization call: one
\* line, or two lines separated by a newline
ClientReplies == {<<"summary">>, <<"line1", "\n", "line2">>}

\* the envelope types on which the observer callable raises
SinkFailures == {{}, {"agent_message"}, {"agent_status"}}

\* the calls the model starts from
Calls ==
    { c \in [workflow : Workflows, history : Histories, entry : Entries, observer : Observers,
             reply : ClientReplies, raises : SinkFailures,
             writes : {FALSE}, clear_work_dir : {TRUE}] :
        /\ c.raises # {}
             => /\ c.entry = "run" /\ c.observer = <<TRUE, "c1">>
                /\ c.history = <<>> /\ c.reply = <<"summary">>
        /\ c.raises = {"agent_status"} => c.workflow.summary_method = "llm"
        /\ c.reply # <<"summary">>
             => c.workflow.type = "sequential" /\ c.entry = "run" /\ c.observer = <<FALSE, None>>
        /\ c.entry # "run" => c.observer[1]
        /\ c.entry = "ctor" => c.history # <<>>
        /\ c.workflow.type = "sequential" => c.history = <<>> /\ c.entry \in {"run", "chat"}
        /\ c.observer = <<FALSE, "c1">> => c.workflow.summary_method = "llm" }

NoLive == [turn |-> None, last |-> <<>>, cnt |-> [sender |-> 0, receiver |-> 0],
           round |-> 0, speaker |-> <<>>]

\* calls on a workflow with an unbuildable node, next to the calls on
\* workflows of at most MaxLiveAgents buildable nodes
FaultCalls ==
    { c \in [workflow : [name : {"wf"}, type : WorkFlowType, summary_method : {"last"},
                         agents : FaultyAgentLists],
             history : {h \in Histories : Len(h) <= 1}, entry : {"run"},
             observer : {<<TRUE, "c1">>}, reply : {<<"summary">>}, raises : {{}},
             writes : {FALSE}, clear_work_dir : {TRUE}] :
        c.workflow.type = "sequential" => c.history = <<>> }

\* utils.clear_folder: every file and directory of the folder is removed
clear_folder(entries) == {}

\* an entry that was in the working directory before the manager was made
OldFile == <<"old", 0>>

\* the working directory after a participant has answered: the code it ran
\* may have written a file, named here after the stage that wrote it
Written == IF writes THEN work_dir \cup {<<"out", stage>>} ELSE work_dir

\* the state after construction, for a call drawn from cs
Start(cs) ==
    /\ \E c \in cs :
        /\ workflow = c.workflow
        /\ description = c.workflow
        /\ usage_data = Null /\ found = Null
        /\ class_workflow = None /\ factory = <<>>
        /\ writes = c.writes /\ clear_work_dir = c.clear_work_dir
        \* __init__: if clear_work_dir: clear_folder(self.work_dir)
        /\ work_dir = IF c.clear_work_dir THEN clear_folder({OldFile}) ELSE {OldFile}
        /\ history = c.history
        /\ entry = c.entry
        /\ send_message_function = c.observer[1]
        /\ connection_id = c.observer[2]
        /\ client_reply = c.reply
        /\ sink_raises = c.raises
    /\ message = <<"Hi">>
    \* runs start with the process-wide credential set; BuildSpec builds agents without it
    /\ environ = {"OPENAI_API_KEY"}
    /\ pc = IF entry \in {"chat", "run_workflow"} THEN "validate" ELSE "run"
    /\ error = None
    /\ a_workflow = NoWorkflow
    /\ a_message = <<>>
    /\ run_history = <<>>
    /\ sender = NoAgent
    /\ receiver = NoAgent
    /\ agent_history = <<>>
    /\ idx = 0
    /\ hpos = 0
    /\ live = NoLive
    /\ stage = 0
    /\ sequential_history = <<>>
    /\ seq_agent_history = <<>>
    /\ model_client = FALSE
    /\ output = <<>>
    /\ result = NoResult
    /\ chat_result = NoResult
    /\ sink = <<>>
    /\ received = <<>>
    /\ calls = <<>>
    /\ log = <<>>

Init == Start(Calls)

\* runs on workflows that hold a node that cannot be built
FaultInit ==
    Start(FaultCalls \cup {c \in Calls : Len(c.workflow.agents) <= MaxLiveAgents})

----------------------------------------------------------------------------
(* Entering a run *)

Event(e, who) == [ev |-> e, who |-> who]

\* variant: a failure inside a sequential run goes back to the stage loop
Fail_swallow(e) ==
    /\ pc' = IF workflow.type = "sequential" THEN "stage_loop" ELSE "failed"
    /\ error' = e

\* an exception leaves the run
Fail(e) ==
    /\ pc' = "failed"
    /\ error' = e

\* variant: the summary method is not validated
Workflow_validate_lenient(wf) == wf.type \in WorkFlowType

\* Workflow.model_validate (chat) and the Workflow object of run_workflow:
\* validate_workflow_type and validate_summary_method
Workflow_validate(wf) ==
    wf.type \in WorkFlowType /\ wf.summary_method \in WorkFlowSummaryMethod

Validate ==
    /\ pc = "validate"
    /\ IF Workflow_validate(workflow)
       THEN pc' = "run" /\ error' = error
       ELSE Fail("ValidationError")
    /\ UNCHANGED <<inputs, a_workflow, a_message, run_history, sender, receiver,
                   agent_history, idx, hpos, live, stage, sequential_history,
                   seq_agent_history, model_client, output, result, chat_result, sink,
                   received, calls, log>>

\* manager.run(...) is called: AutoWorkflowManager.run or SequentialWorkflowManager.run
Run ==
    /\ pc = "run"
    /\ IF workflow.type = "autonomous"
       THEN /\ pc' = "sender_loop"
            /\ a_workflow' = workflow
            /\ a_message' = IF entry = "chat" THEN strip(message) ELSE message
            /\ run_history' = RunHistoryArg
            /\ idx' = 1
            /\ stage' = stage
       ELSE /\ pc' = "stage_loop"
            /\ stage' = 1
            /\ UNCHANGED <<a_workflow, a_message, run_history, idx>>
    /\ UNCHANGED <<inputs, error, sender, receiver, agent_history, hpos, live,
                   sequential_history, seq_agent_history, model_client, output, result,
                   chat_result, sink, received, calls, log>>

----------------------------------------------------------------------------
(* AutoWorkflowManager._run_workflow *)

\* one iteration of the first loop: every sender-linked node is loaded
SenderLoopStep ==
    /\ pc = "sender_loop"
    /\ idx <= Len(a_workflow.agents)
    /\ LET node == a_workflow.agents[idx]
           r == load(node.agent)
       IN  IF node.link = "sender"
           THEN IF r.ok
                THEN /\ sender' = r.agent
                     /\ log' = Append(log, Event("load_sender", r.agent.built_from))
                     /\ idx' = idx + 1
                     /\ UNCHANGED <<pc, error>>
                ELSE /\ Fail(r.error)
                     /\ UNCHANGED <<sender, log, idx>>
           ELSE /\ idx' = idx + 1
                /\ UNCHANGED <<sender, log, pc, error>>
    /\ description' = IF a_workflow.agents[idx].link = "sender"
                      THEN loaded_in_place(idx) ELSE description
    /\ UNCHANGED <<args, work_dir, a_workflow, a_message, run_history, receiver,
                   agent_history, hpos, live, stage, sequential_history,
                   seq_agent_history, model_client, output, result, chat_result, sink, received, calls>>

\* variant: the missing sender is not detected
SenderCheck_noraise ==
    /\ pc = "sender_loop"
    /\ idx > Len(a_workflow.agents)
    /\ pc' = "receiver_loop" /\ idx' = 1 /\ error' = error
    /\ UNCHANGED <<inputs, a_workflow, a_message, run_history, sender, receiver,
                   agent_history, hpos, live, stage, sequential_history,
                   seq_agent_history, model_client, output, result, chat_result, sink,
                   received, calls, log>>

\* `if self.sender is None: raise ValueError`
SenderCheck ==
    /\ pc = "sender_loop"
    /\ idx > Len(a_workflow.agents)
    /\ IF sender = NoAgent
       THEN Fail("ValueError:not_defined") /\ idx' = idx
       ELSE pc' = "receiver_loop" /\ idx' = 1 /\ error' = error
    /\ UNCHANGED <<inputs, a_workflow, a_message, run_history, sender, receiver,
                   agent_history, hpos, live, stage, sequential_history,
                   seq_agent_history, model_client, output, result, chat_result, sink,
                   received, calls, log>>

\* variant: the exchange is started without replaying the prior history
AfterNode_noreplay(rcv) ==
    IF rcv # NoAgent THEN "initiate" ELSE "receiver_loop"

\* where one iteration of the second loop goes once the node has been looked at:
\* `if self.receiver:` is tested for every node, receiver-linked or not
AfterNode(rcv) ==
    IF rcv # NoAgent
    THEN IF run_history # <<>> THEN "replay" ELSE "initiate"
    ELSE "receiver_loop"

\* one iteration of the second loop, up to the start of the replay or exchange
ReceiverLoopStep ==
    /\ pc = "receiver_loop"
    /\ idx <= Len(a_workflow.agents)
    /\ LET node == a_workflow.agents[idx]
           r == load(node.agent)
       IN  IF node.link = "receiver" /\ ~r.ok
           THEN /\ Fail(r.error)
                /\ UNCHANGED <<receiver, log, idx, hpos>>
           ELSE LET rcv == IF node.link = "receiver" THEN r.agent ELSE receiver
                IN  /\ receiver' = rcv
                    /\ log' = IF node.link = "receiver"
                              THEN Append(log, Event("load_receiver", rcv.built_from))
                              ELSE log
                    /\ pc' = AfterNode(rcv)
                    /\ idx' = IF rcv # NoAgent THEN idx ELSE idx + 1
                    /\ hpos' = 1
                    /\ error' = error
    /\ description' = IF a_workflow.agents[idx].link = "receiver"
                      THEN loaded_in_place(idx) ELSE description
    /\ UNCHANGED <<args, work_dir, a_workflow, a_message, run_history, sender,
                   agent_history, live, stage, sequential_history,
                   seq_agent_history, model_client, output, result, chat_result, sink, received, calls>>

\* variant: the missing receiver is not detected
ReceiverCheck_noraise ==
    /\ pc = "receiver_loop"
    /\ idx > Len(a_workflow.agents)
    /\ pc' = "generate_output" /\ error' = error
    /\ UNCHANGED <<inputs, a_workflow, a_message, run_history, sender, receiver,
                   agent_history, idx, hpos, live, stage, sequential_history,
                   seq_agent_history, model_client, output, result, chat_result, sink,
                   received, calls, log>>

\* `if self.receiver is None: raise ValueError`, else _run_workflow returns
ReceiverCheck ==
    /\ pc = "receiver_loop"
    /\ idx > Len(a_workflow.agents)
    /\ IF receiver = NoAgent
       THEN Fail("ValueError:not_defined")
       ELSE pc' = "generate_output" /\ error' = error
    /\ UNCHANGED <<inputs, a_workflow, a_message, run_history, sender, receiver,
                   agent_history, idx, hpos, live, stage, sequential_history,
                   seq_agent_history, model_client, output, result, chat_result, sink,
                   received, calls, log>>

\* one message of _populate_history
populate_one(w, msg) ==
    IF msg.role = "user"
    THEN send(w, sender, receiver, Text(msg.content), "False", TRUE)
    ELSE IF msg.role = "assistant"
    THEN send(w, receiver, sender, Text(msg.content), "False", TRUE)
    ELSE w

PopulateHistoryStep ==
    /\ pc = "replay"
    /\ hpos <= Len(run_history)
    /\ LET w == populate_one(World, run_history[hpos])
       IN  /\ SetWorld(w)
           /\ IF w.exc # None
              THEN Fail(w.exc)
              ELSE /\ pc' = IF hpos = Len(run_history) THEN "initiate" ELSE "replay"
                   /\ error' = error
    /\ log' = Append(log, Event("replay", receiver.built_from))
    /\ hpos' = hpos + 1
    /\ UNCHANGED <<inputs, a_workflow, a_message, run_history, sender, receiver,
                   idx, live, stage, sequential_history, seq_agent_history,
                   model_client, output, result, chat_result>>

----------------------------------------------------------------------------
(* The live exchange (participant capability initiateChat / send / receive) *)

\* what a participant may answer: a plain text that ends the exchange, or a
\* dict carrying its own role
Replies == {Text(<<"TERMINATE">>), Dict("assistant", <<"ok">>)}

EndExchange ==
    /\ pc' = "receiver_loop"
    /\ idx' = idx + 1
    /\ live' = NoLive

\* self.sender.initiate_chat(self.receiver, message=message, clear_history=...)
InitiateChat ==
    /\ pc = "initiate"
    /\ LET w == send(World, sender, receiver, Text(a_message), "None", FALSE)
       IN  /\ SetWorld(w)
           /\ IF w.exc # None
              THEN Fail(w.exc) /\ live' = live
              ELSE /\ live' = [turn |-> "receiver", last |-> a_message,
                               cnt |-> [sender |-> 0, receiver |-> 0],
                               round |-> 0, speaker |-> sender.name]
                   /\ pc' = "live"
                   /\ error' = error
    /\ log' = Append(log, Event("initiate_chat", receiver.built_from))
    /\ UNCHANGED <<inputs, a_workflow, a_message, run_history, sender, receiver,
                   idx, hpos, stage, sequential_history, seq_agent_history,
                   model_client, output, result, chat_result>>

\* variant: only the termination predicate stops a participant
Reply_noceiling ==
    /\ pc = "live"
    /\ LET me == IF live.turn = "receiver" THEN receiver ELSE sender
           peer == IF live.turn = "receiver" THEN sender ELSE receiver
           other == IF live.turn = "receiver" THEN "sender" ELSE "receiver"
       IN  /\ me.class = "ExtendedConversableAgent"
           /\ IF is_termination_msg(live.last)
              THEN /\ EndExchange
                   /\ UNCHANGED <<error, agent_history, sink, received, calls, work_dir>>
              ELSE \E r \in Replies :
                   LET w == send(World, me, peer, r, "None", FALSE)
                   IN  /\ SetWorld(w)
                       /\ work_dir' = Written
                       /\ idx' = idx
                       /\ IF w.exc # None
                          THEN Fail(w.exc) /\ live' = live
                          ELSE /\ live' = [live EXCEPT !.turn = other, !.last = r.content,
                                                       !.cnt[live.turn] = @ + 1]
                               /\ UNCHANGED <<pc, error>>
    /\ UNCHANGED <<args, description, a_workflow, a_message, run_history, sender, receiver,
                   hpos, stage, sequential_history, seq_agent_history,
                   model_client, output, result, chat_result, log>>

\* a conversable participant answers the message it received, or stops:
\* its termination predicate matches, or its max-auto-reply ceiling is reached
Reply ==
    /\ pc = "live"
    /\ LET me == IF live.turn = "receiver" THEN receiver ELSE sender
           peer == IF live.turn = "receiver" THEN sender ELSE receiver
           other == IF live.turn = "receiver" THEN "sender" ELSE "receiver"
       IN  /\ me.class = "ExtendedConversableAgent"
           /\ IF \/ live.cnt[live.turn] >= me.max_consecutive_auto_reply
                 \/ is_termination_msg(live.last)
              THEN /\ EndExchange
                   /\ UNCHANGED <<error, agent_history, sink, received, calls, work_dir>>
              ELSE \E r \in Replies :
                   LET w == send(World, me, peer, r, "None", FALSE)
                   IN  /\ SetWorld(w)
                       /\ work_dir' = Written
                       /\ idx' = idx
                       /\ IF w.exc # None
                          THEN Fail(w.exc) /\ live' = live
                          ELSE /\ live' = [live EXCEPT !.turn = other, !.last = r.content,
                                                       !.cnt[live.turn] = @ + 1]
                               /\ UNCHANGED <<pc, error>>
    /\ UNCHANGED <<args, description, a_workflow, a_message, run_history, sender, receiver,
                   hpos, stage, sequential_history, seq_agent_history,
                   model_client, output, result, chat_result, log>>

RECURSIVE Broadcast(_, _, _, _, _)
\* the coordinator relays the message to every member but the speaker
Broadcast(w, mgr, k, speaker, msg) ==
    IF k > Len(mgr.members) THEN w
    ELSE Broadcast(IF mgr.members[k].name # speaker
                   THEN send(w, mgr, mgr.members[k], msg, "False", TRUE)
                   ELSE w,
                   mgr, k + 1, speaker, msg)

\* one round of the group coordinator: relay, pick a speaker, take its answer
GroupRound ==
    /\ pc = "live"
    /\ live.turn = "receiver"
    /\ receiver.class = "ExtendedGroupChatManager"
    /\ IF is_termination_msg(live.last)
       THEN /\ EndExchange
            /\ UNCHANGED <<error, agent_history, sink, received, calls, work_dir>>
       ELSE LET w1 == Broadcast(World, receiver, 1, live.speaker, Dict("user", live.last))
            IN  IF w1.exc # None
                THEN /\ SetWorld(w1)
                     /\ Fail(w1.exc)
                     /\ UNCHANGED <<idx, live, work_dir>>
                ELSE IF live.round >= MaxRound - 1
                THEN /\ SetWorld(w1)
                     /\ EndExchange
                     /\ error' = error
                     /\ work_dir' = work_dir
                ELSE \E k \in 1..Len(receiver.members), r \in Replies :
                     LET w2 == send(w1, receiver.members[k], receiver, r, "False", FALSE)
                     IN  /\ SetWorld(w2)
                         /\ work_dir' = Written
                         /\ idx' = idx
                         /\ IF w2.exc # None
                            THEN Fail(w2.exc) /\ live' = live
                            ELSE /\ live' = [live EXCEPT !.round = @ + 1, !.last = r.content,
                                                         !.speaker = receiver.members[k].name]
                                 /\ UNCHANGED <<pc, error>>
    /\ UNCHANGED <<args, description, a_workflow, a_message, run_history, sender, receiver,
                   hpos, stage, sequential_history, seq_agent_history,
                   model_client, output, result, chat_result, log>>

----------------------------------------------------------------------------
(* Summaries, usage and results *)

Out(c) == [ok |-> TRUE, output |-> c, status |-> FALSE, summarized |-> FALSE, error |-> None]
Crash(e, st) == [ok |-> FALSE, output |-> <<>>, status |-> st, summarized |-> FALSE, error |-> e]

\* utils.summarize_chat_history: the text the model endpoint returns
summarize_chat_history(task, messages) == client_reply

StatusEnvelope(conn) ==
    [type |-> "agent_status",
     data |-> [status |-> "summarizing", message |-> "Summarizing agent dialogue"],
     connection_id |-> conn]

\* variant: "last" takes the first entry of the transcript
AutoWorkflowManager_generate_output_first(message_text, summary_method, hist, client) ==
    IF summary_method = "last"
    THEN Out(IF hist # <<>> THEN hist[1].message.content ELSE <<>>)
    ELSE IF summary_method = "llm"
    THEN IF connection_id # None /\ ~send_message_function
         THEN Crash("TypeError", FALSE)
         ELSE IF connection_id # None /\ "agent_status" \in sink_raises
         THEN Crash("SinkError", TRUE)
         ELSE IF ~client
         THEN Crash("AttributeError", connection_id # None)
         ELSE [ok |-> TRUE, output |-> summarize_chat_history(message_text, hist),
               status |-> connection_id # None, summarized |-> TRUE, error |-> None]
    ELSE Out(<<>>)

\* variant: "none" falls back to the last entry
AutoWorkflowManager_generate_output_nonelast(message_text, summary_method, hist, client) ==
    IF summary_method \in {"last", "none"}
    THEN Out(IF hist # <<>> THEN hist[Len(hist)].message.content ELSE <<>>)
    ELSE IF summary_method = "llm"
    THEN IF connection_id # None /\ ~send_message_function
         THEN Crash("TypeError", FALSE)
         ELSE IF connection_id # None /\ "agent_status" \in sink_raises
         THEN Crash("SinkError", TRUE)
         ELSE IF ~client
         THEN Crash("AttributeError", connection_id # None)
         ELSE [ok |-> TRUE, output |-> summarize_chat_history(message_text, hist),
               status |-> connection_id # None, summarized |-> TRUE, error |-> None]
    ELSE Out(<<>>)

\* AutoWorkflowManager._generate_output; client is TRUE when self.receiver.client is set
AutoWorkflowManager_generate_output(message_text, summary_method, hist, client) ==
    IF summary_method = "last"
    THEN Out(IF hist # <<>> THEN hist[Len(hist)].message.content ELSE <<>>)
    ELSE IF summary_method = "llm"
    THEN IF connection_id # None /\ ~send_message_function
         THEN Crash("TypeError", FALSE)
         ELSE IF connection_id # None /\ "agent_status" \in sink_raises
         THEN Crash("SinkError", TRUE)
         ELSE IF ~client
         THEN Crash("AttributeError", connection_id # None)
         ELSE [ok |-> TRUE, output |-> summarize_chat_history(message_text, hist),
               status |-> connection_id # None, summarized |-> TRUE, error |-> None]
    ELSE IF summary_method = "none"
    THEN Out(<<>>)
    ELSE Out(<<>>)

\* SequentialWorkflowManager._generate_output; client is TRUE when self.model_client is set
SequentialWorkflowManager_generate_output(message_text, summary_method, hist, client) ==
    IF summary_method = "last"
    THEN Out(IF hist # <<>> THEN hist[Len(hist)].message.content ELSE <<>>)
    ELSE IF summary_method = "llm"
    THEN IF connection_id # None /\ ~send_message_function
         THEN Crash("TypeError", FALSE)
         ELSE IF connection_id # None /\ "agent_status" \in sink_raises
         THEN Crash("SinkError", TRUE)
         ELSE IF ~client
         THEN Crash("AttributeError", connection_id # None)
         ELSE [ok |-> TRUE, output |-> summarize_chat_history(message_text, hist),
               status |-> connection_id # None, summarized |-> TRUE, error |-> None]
    ELSE IF summary_method = "none"
    THEN Out(<<>>)
    ELSE Out(<<>>)

\* the effect of a _generate_output outcome on the observer and the event log
AfterOutput(o, who) ==
    /\ sink' = IF o.status THEN Append(sink, StatusEnvelope(connection_id)) ELSE sink
    /\ log' = IF o.summarized THEN Append(log, Event("summarize", who)) ELSE log
    /\ output' = o.output

\* a usage summary; present is FALSE for None
default_usage == [present |-> TRUE, total_cost |-> 0, total_tokens |-> 0]

\* agent.client.total_usage_summary: None until the client has answered, then
\* counters that grow with every answer the participant gave
total_usage_summary(a) ==
    LET n == Cardinality({k \in 1..Len(agent_history) : agent_history[k].sender = a.name})
    IN  [present |-> n > 0, total_cost |-> n, total_tokens |-> n]

\* find_key_value(agent_usage, key) or 0
find_key_value_or_0(data, key) == IF data.present THEN data[key] ELSE 0

\* one record of _get_agent_usage
UsageRecord(a) ==
    LET agent_usage == IF a.client THEN total_usage_summary(a) ELSE default_usage
    IN  [agent |-> a.name,
         total_cost |-> find_key_value_or_0(agent_usage, "total_cost"),
         total_tokens |-> find_key_value_or_0(agent_usage, "total_tokens")]

\* AutoWorkflowManager._get_agent_usage
get_agent_usage(a) ==
    <<UsageRecord(a)>> \o
    (IF a.class = "ExtendedGroupChatManager"
     THEN [k \in 1..Len(a.members) |-> UsageRecord(a.members[k])]
     ELSE <<>>)

\* variant: the receiver is walked before the sender
get_usage_summary_swapped == get_agent_usage(receiver) \o get_agent_usage(sender)

\* AutoWorkflowManager._get_usage_summary
get_usage_summary == get_agent_usage(sender) \o get_agent_usage(receiver)

\* the rest of run() once _run_workflow has returned: _generate_output,
\* _get_usage_summary and the Message that is returned
ReturnFromRun ==
    /\ pc = "generate_output"
    /\ LET o == AutoWorkflowManager_generate_output(
                    a_message, a_workflow.summary_method, agent_history, receiver.client)
       IN  /\ sink' = IF o.status THEN Append(sink, StatusEnvelope(connection_id)) ELSE sink
           /\ output' = o.output
           /\ IF o.ok
              THEN /\ result' = [role |-> "assistant", content |-> o.output,
                                 messages |-> agent_history,
                                 summary_method |-> a_workflow.summary_method,
                                 usage |-> get_usage_summary, task |-> <<>>]
                   /\ log' = (IF o.summarized THEN Append(log, Event("summarize", <<"auto">>))
                              ELSE log) \o <<Event("usage", <<"auto">>)>>
                   /\ pc' = IF workflow.type = "sequential" THEN "stage_end"
                            ELSE IF entry = "chat" THEN "chat_output" ELSE "done"
                   /\ error' = error
              ELSE /\ Fail(o.error)
                   /\ UNCHANGED <<result, log>>
    /\ UNCHANGED <<inputs, a_workflow, a_message, run_history, sender, receiver,
                   agent_history, idx, hpos, live, stage, sequential_history,
                   seq_agent_history, model_client, chat_result, received, calls>>

----------------------------------------------------------------------------
(* SequentialWorkflowManager *)

\* module global api_key = os.getenv("OPENAI_API_KEY")
api_key == IF "OPENAI_API_KEY" \in environ THEN "sk-env" ELSE None

\* the engine's own sender of every stage
user_proxy ==
    [name |-> user_proxy_name, type |-> "userproxy", llm |-> TRUE,
     config_list |-> <<[model |-> "gpt-4", api_key |-> api_key]>>,
     max_consecutive_auto_reply |-> UserProxyMaxAutoReply, is_termination_msg |-> None,
     code_execution_config |-> "False", agents |-> <<>>]

\* repr of a str inside str(list): quoted, a newline written as an escape
repr(c) == <<"'">> \o [k \in 1..Len(c) |-> IF c[k] = "\n" THEN "\\n" ELSE c[k]] \o <<"'">>

\* str(sequential_history)
str_list(l) == <<"[">> \o Join([k \in 1..Len(l) |-> repr(l[k])], <<", ">>) \o <<"]">>

\* the input of stage i (1-based): the caller's message, then the context template
task_prompt(i, msg, seq_hist) ==
    IF i > 1
    THEN <<"Your primary task is as follows:", "Provide information related to the context.",
           "Context for addressing your task is below:", "=======">>
         \o str_list(seq_hist) \o <<"=======", "Now address your task:">>
    ELSE msg

\* the sub-workflow of a stage
StageWorkflow(agent) ==
    [name |-> "agent workflow", type |-> "autonomous", summary_method |-> "llm",
     agents |-> << [link |-> "sender", agent |-> user_proxy],
                   [link |-> "receiver", agent |-> agent] >>]

\* the message SequentialWorkflowManager.run receives
SeqMessage == IF entry = "chat" THEN strip(message) ELSE message

\* variant: the stage's manager is given the composer's own clear_work_dir
StageClearWorkDir_callers == clear_work_dir

\* the clear_work_dir argument of the stage's AutoWorkflowManager
StageClearWorkDir == TRUE

\* one iteration of the stage loop up to auto_workflow.run(...): a fresh
\* AutoWorkflowManager for the stage, run without history
StageStart ==
    /\ pc = "stage_loop"
    /\ stage <= Len(workflow.agents)
    /\ a_workflow' = StageWorkflow(workflow.agents[stage].agent)
    /\ a_message' = task_prompt(stage, SeqMessage, sequential_history)
    /\ run_history' = <<>>
    /\ agent_history' = <<>>
    /\ sender' = NoAgent
    /\ receiver' = NoAgent
    /\ idx' = 1
    /\ pc' = "sender_loop"
    /\ log' = Append(log, Event("stage_start", workflow.agents[stage].agent.name))
    /\ work_dir' = IF StageClearWorkDir THEN clear_folder(work_dir) ELSE work_dir
    /\ UNCHANGED <<args, description, error, hpos, live, stage, sequential_history,
                   seq_agent_history, model_client, output, result, chat_result,
                   sink, received, calls>>

\* variant: the loop index advances by two
StageEnd_skip ==
    /\ pc = "stage_end"
    /\ sequential_history' = Append(sequential_history, result.content)
    /\ model_client' = receiver.client
    /\ seq_agent_history' = seq_agent_history \o result.messages
    /\ stage' = stage + 2
    /\ pc' = "stage_loop"
    /\ log' = Append(log, Event("stage_end", receiver.built_from))
    /\ UNCHANGED <<inputs, error, a_workflow, a_message, run_history, sender, receiver,
                   agent_history, idx, hpos, live, output, result, chat_result,
                   sink, received, calls>>

\* variant: the stage's transcript replaces the composer's
StageEnd_replace ==
    /\ pc = "stage_end"
    /\ sequential_history' = Append(sequential_history, result.content)
    /\ model_client' = receiver.client
    /\ seq_agent_history' = result.messages
    /\ stage' = stage + 1
    /\ pc' = "stage_loop"
    /\ log' = Append(log, Event("stage_end", receiver.built_from))
    /\ UNCHANGED <<inputs, error, a_workflow, a_message, run_history, sender, receiver,
                   agent_history, idx, hpos, live, output, result, chat_result,
                   sink, received, calls>>

\* the rest of the iteration, once the stage's run() has returned
StageEnd ==
    /\ pc = "stage_end"
    /\ sequential_history' = Append(sequential_history, result.content)
    /\ model_client' = receiver.client
    /\ seq_agent_history' = seq_agent_history \o result.messages
    /\ stage' = stage + 1
    /\ pc' = "stage_loop"
    /\ log' = Append(log, Event("stage_end", receiver.built_from))
    /\ UNCHANGED <<inputs, error, a_workflow, a_message, run_history, sender, receiver,
                   agent_history, idx, hpos, live, output, result, chat_result,
                   sink, received, calls>>

\* SequentialWorkflowManager.run after _run_workflow: _generate_output and the Message
SeqFinish ==
    /\ pc = "stage_loop"
    /\ stage > Len(workflow.agents)
    /\ LET o == SequentialWorkflowManager_generate_output(
                    SeqMessage, workflow.summary_method, seq_agent_history, model_client)
       IN  /\ AfterOutput(o, <<"seq">>)
           /\ IF o.ok
              THEN /\ result' = [role |-> "assistant", content |-> o.output,
                                 messages |-> seq_agent_history,
                                 summary_method |-> workflow.summary_method,
                                 usage |-> <<>>, task |-> SeqMessage]
                   /\ pc' = IF entry = "chat" THEN "chat_output" ELSE "done"
                   /\ error' = error
              ELSE Fail(o.error) /\ result' = result
    /\ UNCHANGED <<inputs, a_workflow, a_message, run_history, sender, receiver,
                   agent_history, idx, hpos, live, stage, sequential_history,
                   seq_agent_history, model_client, chat_result, received, calls>>

----------------------------------------------------------------------------
(* AutoGenChatManager.chat, after workflow_manager.run(...) has returned *)

\* workflow_manager.agent_history
ManagerHistory == IF workflow.type = "sequential" THEN seq_agent_history ELSE agent_history

\* workflow_manager.receiver (never set by a SequentialWorkflowManager)
ManagerReceiver == IF workflow.type = "sequential" THEN NoAgent ELSE receiver

\* utils.extract_successful_code_blocks: the content of every message of role "user"
extract_successful_code_blocks(messages) ==
    LET F[k \in 0..Len(messages)] ==
            IF k = 0 THEN <<>>
            ELSE IF messages[k].message.role = "user"
                 THEN Append(F[k - 1], messages[k].message.content)
                 ELSE F[k - 1]
    IN  F[Len(messages)]

\* AutoGenChatManager._generate_output
AutoGenChatManager_generate_output(message_text, hist, rcv, summary_method) ==
    IF summary_method = "last"
    THEN LET blocks == extract_successful_code_blocks(hist)
             last_message == IF hist # <<>> THEN hist[Len(hist)].message.content ELSE <<>>
             successful_code_blocks == Join(blocks, <<"\n", "\n">>)
         IN  Out(IF successful_code_blocks # <<>>
                 THEN last_message \o <<"\n">> \o successful_code_blocks
                 ELSE last_message)
    ELSE IF summary_method = "llm"
    THEN IF rcv = NoAgent
         THEN Crash("AttributeError", FALSE)
         ELSE IF "agent_status" \in sink_raises
         THEN Crash("SinkError", TRUE)
         ELSE IF ~rcv.client
         THEN Crash("AttributeError", TRUE)
         ELSE [ok |-> TRUE, output |-> summarize_chat_history(message_text, hist),
               status |-> TRUE, summarized |-> TRUE, error |-> None]
    ELSE IF summary_method = "none"
    THEN Out(<<>>)
    ELSE Out(<<>>)

ChatFinish ==
    /\ pc = "chat_output"
    /\ LET o == AutoGenChatManager_generate_output(
                    strip(message), ManagerHistory, ManagerReceiver, workflow.summary_method)
       IN  /\ AfterOutput(o, <<"chat">>)
           /\ IF o.ok
              THEN /\ chat_result' = [role |-> "assistant", content |-> o.output,
                                      messages |-> ManagerHistory,
                                      summary_method |-> workflow.summary_method,
                                      usage |-> <<>>, task |-> <<>>]
                   /\ pc' = "done"
                   /\ error' = error
              ELSE Fail(o.error) /\ chat_result' = chat_result
    /\ UNCHANGED <<inputs, a_workflow, a_message, run_history, sender, receiver,
                   agent_history, idx, hpos, live, stage, sequential_history,
                   seq_agent_history, model_client, result, received, calls>>

----------------------------------------------------------------------------
Next ==
    \/ Validate
    \/ Run
    \/ SenderLoopStep
    \/ SenderCheck
    \/ ReceiverLoopStep
    \/ ReceiverCheck
    \/ PopulateHistoryStep
    \/ InitiateChat
    \/ Reply
    \/ GroupRound
    \/ ReturnFromRun
    \/ StageStart
    \/ StageEnd
    \/ SeqFinish
    \/ ChatFinish

Spec == Init /\ [][Next]_vars

----------------------------------------------------------------------------
(* The interception hook on its own: a built topology (a conversable agent *)
(* and a group coordinator) whose wrapped receive is called with every     *)
(* combination of arguments.                                               *)

HookWorkflow ==
    [name |-> "wf", type |-> "autonomous", summary_method |-> "last",
     agents |-> << CHOOSE n \in Nodes(1) : n.link = "sender",
                   CHOOSE n \in Nodes(2) : n.agent.type = "groupchat" >>]

RequestReply == {"True", "False", "None"}

HookInit ==
    /\ workflow = HookWorkflow
    /\ description = HookWorkflow
    /\ usage_data = Null /\ found = Null
    /\ class_workflow = None /\ factory = <<>>
    /\ work_dir = {} /\ writes = FALSE /\ clear_work_dir = TRUE
    /\ history = <<>>
    /\ entry = "run"
    /\ message = <<"Hi">>
    /\ \E o \in {<<TRUE, "c1">>, <<FALSE, None>>} :
        send_message_function = o[1] /\ connection_id = o[2]
    /\ environ = {"OPENAI_API_KEY"}
    /\ client_reply = <<"summary">>
    /\ sink_raises = {}
    /\ pc = "hook"
    /\ error = None
    /\ a_workflow = HookWorkflow
    /\ a_message = <<"Hi">>
    /\ run_history = <<>>
    /\ sender = load(HookWorkflow.agents[1].agent).agent
    /\ receiver = load(HookWorkflow.agents[2].agent).agent
    /\ agent_history = <<>>
    /\ idx = 0
    /\ hpos = 0
    /\ live = NoLive
    /\ stage = 0
    /\ sequential_history = <<>>
    /\ seq_agent_history = <<>>
    /\ model_client = FALSE
    /\ output = <<>>
    /\ result = NoResult
    /\ chat_result = NoResult
    /\ sink = <<>>
    /\ received = <<>>
    /\ calls = <<>>
    /\ log = <<>>

\* agent.receive(message, sender, request_reply, silent) on a wrapped agent
HookReceive ==
    /\ pc = "hook"
    /\ Len(received) < MaxHook
    /\ \E to \in {sender, receiver}, rr \in RequestReply, silent \in BOOLEAN,
          msg \in {Text(<<"m">>), Dict("assistant", <<"d">>)} :
        LET from == IF to = sender THEN receiver ELSE sender
        IN  SetWorld(receive(World, to, from, msg, rr, silent))
    /\ UNCHANGED <<inputs, pc, error, a_workflow, a_message, run_history, sender, receiver,
                   idx, hpos, live, stage, sequential_history, seq_agent_history,
                   model_client, output, result, chat_result, log>>

HookNext == HookReceive

HookSpec == HookInit /\ [][HookNext]_vars

----------------------------------------------------------------------------
(* Building one agent on its own: AutoWorkflowManager.load applied to an    *)
(* agent description whose model entries carry, or lack, a key, with and    *)
(* without the process-wide OPENAI_API_KEY.                                 *)

\* a config_list entry: no api_key, api_key None, api_key "", a key, or a key
\* next to fields outside the valid keys
LlmEntries ==
    { [model |-> "gpt-4"],
      [model |-> "gpt-4", api_key |-> None],
      [model |-> "gpt-4", api_key |-> ""],
      [model |-> "gpt-4", api_key |-> "sk"],
      [model |-> "gpt-4", api_key |-> "sk", base_url |-> "http://h", api_version |-> "",
       description |-> "d", user_id |-> None] }

ConfigLists == UNION { [1..n -> LlmEntries] : n \in 0..MaxEntries }

WithConfigList(spec, cl) == [spec EXCEPT !.llm = TRUE, !.config_list = cl]

\* descriptions holding a type outside AgentType: at the top level, on the
\* last member of a group, and on a member of a group nested in a group
UnknownTypeAgents ==
    { AgentSpec(AgentName(1), UnknownType, llm, <<>>) : llm \in BOOLEAN }
    \cup { AgentSpec(AgentName(1), "groupchat", TRUE,
              << AgentSpec(MemberName(1, 1), "assistant", TRUE, <<>>),
                 AgentSpec(MemberName(1, 2), UnknownType, TRUE, <<>>) >>),
           AgentSpec(AgentName(1), "groupchat", TRUE,
              << AgentSpec(MemberName(1, 1), "groupchat", TRUE,
                    << AgentSpec(MemberName(1, 2), UnknownType, TRUE, <<>>) >>) >>) }

\* groupchat descriptions without children: "agents" empty or absent (load
\* reads agent.get("agents", [])), at the top level and as a member
EmptyGroups ==
    { AgentSpec(AgentName(1), "groupchat", llm, <<>>) : llm \in BOOLEAN }
    \cup { AgentSpec(AgentName(1), "groupchat", TRUE,
              << AgentSpec(MemberName(1, 1), "groupchat", TRUE, <<>>) >>) }

\* a description without one key of its config
Without(spec, key) == [f \in DOMAIN spec \ {key} |-> spec[f]]

\* one description of every type
TypedAgents ==
    { AgentSpec(AgentName(1), t, TRUE, <<>>) : t \in {"assistant", "userproxy"} }
    \cup { AgentSpec(AgentName(1), "groupchat", TRUE,
               [j \in 1..MaxMembers |-> AgentSpec(MemberName(1, j), "assistant", TRUE, <<>>)]) }

\* descriptions whose is_termination_msg is null, False, a configured
\* predicate, or absent
PredicateAgents ==
    { [a EXCEPT !.is_termination_msg = v] :
         a \in TypedAgents, v \in {None, "False", "configured"} }
    \cup { Without(a, "is_termination_msg") : a \in TypedAgents }

\* the values of code_execution_config: the two modes, the disabled values
\* (False, "none", null), an unrecognized mode, and values that are not a
\* mode name (a number, a dict, a list)
CodeExecSettings ==
    {"local", "docker", "False", "none", None, "shell", "number"} \cup Unhashable

\* plain descriptions with every code_execution_config, or without the key
CodeExecAgents ==
    { [a EXCEPT !.code_execution_config = v] :
         a \in {t \in TypedAgents : t.type # "groupchat"}, v \in CodeExecSettings }
    \cup { Without(a, "code_execution_config") :
              a \in {t \in TypedAgents : t.type # "groupchat"} }

\* the agent descriptions that are built: plain agents with and without
\* llm_config, a group coordinator whose member declares the entries, and the
\* user_proxy of the sequential manager
BuildAgents ==
    { AgentSpec(AgentName(1), t, FALSE, <<>>) : t \in {"assistant", "userproxy"} }
    \cup { WithConfigList(AgentSpec(AgentName(1), t, TRUE, <<>>), cl) :
              t \in {"assistant", "userproxy"}, cl \in ConfigLists }
    \cup { AgentSpec(AgentName(1), "groupchat", TRUE,
              << WithConfigList(AgentSpec(MemberName(1, 1), "assistant", TRUE, <<>>), cl) >>) :
              cl \in ConfigLists }
    \cup { user_proxy }
    \cup UnknownTypeAgents
    \cup EmptyGroups
    \cup PredicateAgents
    \cup CodeExecAgents

BuildWorkflow(spec) ==
    [name |-> "wf", type |-> "autonomous", summary_method |-> "last",
     agents |-> << [link |-> "receiver", agent |-> spec] >>]

\* message contents a termination predicate is applied to
TermContents ==
    { <<"Hi">>, <<"TERMINATE">>, <<"TERMINATE", " ", "\n">>,
      <<"done", "TERMINATE">>, <<"TERMINATE", "now">> }

BuildInit ==
    /\ environ \in {{}, {"OPENAI_API_KEY"}}
    /\ \E spec \in BuildAgents : workflow = BuildWorkflow(spec)
    /\ description = workflow
    /\ usage_data = Null /\ found = Null
    /\ class_workflow = None /\ factory = <<>>
    /\ work_dir = {} /\ writes = FALSE /\ clear_work_dir = TRUE
    /\ history = <<>>
    /\ entry = "run"
    /\ message \in TermContents
    /\ send_message_function = FALSE
    /\ connection_id = None
    /\ client_reply = <<"summary">>
    /\ sink_raises = {}
    /\ pc = "build"
    /\ error = None
    /\ a_workflow = workflow
    /\ a_message = message
    /\ run_history = <<>>
    /\ sender = NoAgent
    /\ receiver = NoAgent
    /\ agent_history = <<>>
    /\ idx = 1
    /\ hpos = 0
    /\ live = NoLive
    /\ stage = 0
    /\ sequential_history = <<>>
    /\ seq_agent_history = <<>>
    /\ model_client = FALSE
    /\ output = <<>>
    /\ result = NoResult
    /\ chat_result = NoResult
    /\ sink = <<>>
    /\ received = <<>>
    /\ calls = <<>>
    /\ log = <<>>

\* self.receiver = self.load(agent.get("agent"))
BuildAgent ==
    /\ pc = "build"
    /\ LET r == load(a_workflow.agents[idx].agent)
       IN  IF r.ok
           THEN /\ receiver' = r.agent
                /\ pc' = "built"
                /\ error' = error
           ELSE /\ Fail(r.error)
                /\ receiver' = receiver
    /\ description' = [description EXCEPT !.agents[idx].agent = sanitized_in_place(@)]
    /\ UNCHANGED <<args, work_dir, a_workflow, a_message, run_history, sender, agent_history,
                   idx, hpos, live, stage, sequential_history, seq_agent_history,
                   model_client, output, result, chat_result, sink, received, calls, log>>

BuildNext == BuildAgent

BuildSpec == BuildInit /\ [][BuildNext]_vars

\* the same description is loaded a second time (a description that is linked
\* twice, or a second run() of the manager); the second object is kept in
\* sender so that it can be compared with the first
BuildAgain ==
    /\ pc = "built"
    /\ LET r == load(description.agents[idx].agent)
       IN  IF r.ok
           THEN /\ sender' = r.agent
                /\ pc' = "rebuilt"
                /\ error' = error
           ELSE /\ Fail(r.error)
                /\ sender' = sender
    /\ description' = [description EXCEPT !.agents[idx].agent = sanitized_in_place(@)]
    /\ UNCHANGED <<args, work_dir, a_workflow, a_message, run_history, receiver, agent_history,
                   idx, hpos, live, stage, sequential_history, seq_agent_history,
                   model_client, output, result, chat_result, sink, received, calls, log>>

RebuildNext == BuildAgent \/ BuildAgain

RebuildSpec == BuildInit /\ [][RebuildNext]_vars

----------------------------------------------------------------------------
(* find_key_value applied to usage summaries: flat dicts, a dict holding a  *)
(* per-model dict or a list of dicts, and None.                             *)

Leaves == {Null, Num(0), Num(3)}
Item(k, val) == [k |-> k, val |-> val]
FlatDicts ==
    { DictOf(<<>>) }
    \cup { DictOf(<<Item(k, l)>>) : k \in {"total_cost", "cost"}, l \in Leaves }
    \cup { DictOf(<<Item("cost", l), Item("total_cost", m)>>) : l \in Leaves, m \in Leaves }
CostDicts == { DictOf(<<>>) } \cup { DictOf(<<Item("total_cost", l)>>) : l \in Leaves }
UsageData ==
    { Null } \cup FlatDicts
    \cup { DictOf(<<Item("gpt-4", d)>>) : d \in FlatDicts }
    \cup { DictOf(<<Item("total_cost", l), Item("gpt-4", d)>>) : l \in Leaves, d \in FlatDicts }
    \cup { DictOf(<<Item("models", ListOf(<<d, e>>))>>) : d \in CostDicts, e \in CostDicts }

\* the caller of find_key_value: _get_agent_usage asks for both usage keys
FindInit ==
    /\ usage_data \in UsageData
    /\ message \in {<<"total_cost">>, <<"total_tokens">>}
    /\ found = Null
    /\ class_workflow = None /\ factory = <<>>
    /\ work_dir = {} /\ writes = FALSE /\ clear_work_dir = TRUE
    /\ pc = "find"
    /\ environ = {}
    /\ workflow = BuildWorkflow(AgentSpec(AgentName(1), "assistant", TRUE, <<>>))
    /\ description = workflow
    /\ history = <<>>
    /\ entry = "run"
    /\ send_message_function = FALSE
    /\ connection_id = None
    /\ client_reply = <<"summary">>
    /\ sink_raises = {}
    /\ error = None
    /\ a_workflow = workflow
    /\ a_message = message
    /\ run_history = <<>>
    /\ sender = NoAgent
    /\ receiver = NoAgent
    /\ agent_history = <<>>
    /\ idx = 1
    /\ hpos = 0
    /\ live = NoLive
    /\ stage = 0
    /\ sequential_history = <<>>
    /\ seq_agent_history = <<>>
    /\ model_client = FALSE
    /\ output = <<>>
    /\ result = NoResult
    /\ chat_result = NoResult
    /\ sink = <<>>
    /\ received = <<>>
    /\ calls = <<>>
    /\ log = <<>>

\* find_key_value(agent.client.total_usage_summary, key)
FindKeyValue ==
    /\ pc = "find"
    /\ found' = find_key_value(usage_data, message[1])
    /\ pc' = "found"
    /\ UNCHANGED <<workflow, description, usage_data, class_workflow, factory,
                   work_dir, writes, clear_work_dir, history, entry, message, send_message_function, connection_id, environ, client_reply,
                   sink_raises, error, a_workflow, a_message, run_history, sender,
                   receiver, agent_history, idx, hpos, live, stage,
                   sequential_history, seq_agent_history, model_client, output,
                   result, chat_result, sink, received, calls, log>>

FindNext == FindKeyValue
FindSpec == FindInit /\ [][FindNext]_vars

----------------------------------------------------------------------------
(* WorkflowManager.__new__ called by two callers whose calls may interleave. *)
(* Its first parameter, named self, is the class, so `self.workflow = ...`  *)
(* assigns an attribute of the class that both calls write and read.        *)

Callers == {1, 2}

\* the workflow arguments: dicts of a type in and outside WorkFlowType, a dict
\* without "type", a path to a file that does not exist, and a value that is
\* neither dict nor str
FactoryArgs(c) ==
    LET n == <<"wf1", "wf2">>[c]
    IN  { [isa |-> "dict", value |-> [name |-> n, type |-> t]] :
            t \in WorkFlowType \cup {"custom"} }
        \cup { [isa |-> i, value |-> [name |-> n]] : i \in {"dict", "str", "list"} }

\* dict.get
Get(d, key) == IF key \in DOMAIN d THEN d[key] ELSE None

\* AutoWorkflowManager.__init__ / SequentialWorkflowManager.__init__ keep the
\* dict they are given
Manager(kind, w) == [kind |-> kind, workflow |-> w]
NoManager == [kind |-> None, workflow |-> [name |-> None]]

\* no run is in progress
NoRun ==
    /\ usage_data = Null /\ found = Null
    /\ work_dir = {} /\ writes = FALSE /\ clear_work_dir = TRUE
    /\ environ = {}
    /\ workflow = BuildWorkflow(AgentSpec(AgentName(1), "assistant", TRUE, <<>>))
    /\ description = workflow
    /\ history = <<>>
    /\ entry = "run"
    /\ message = <<"Hi">>
    /\ send_message_function = FALSE
    /\ connection_id = None
    /\ client_reply = <<"summary">>
    /\ sink_raises = {}
    /\ error = None
    /\ a_workflow = workflow
    /\ a_message = message
    /\ run_history = <<>>
    /\ sender = NoAgent
    /\ receiver = NoAgent
    /\ agent_history = <<>>
    /\ idx = 1
    /\ hpos = 0
    /\ live = NoLive
    /\ stage = 0
    /\ sequential_history = <<>>
    /\ seq_agent_history = <<>>
    /\ model_client = FALSE
    /\ output = <<>>
    /\ result = NoResult
    /\ chat_result = NoResult
    /\ sink = <<>>
    /\ received = <<>>
    /\ calls = <<>>
    /\ log = <<>>

FactoryInit ==
    /\ NoRun
    /\ pc = "factory"
    /\ class_workflow = None
    /\ factory \in [Callers -> [at : {"new"}, arg : UNION {FactoryArgs(c) : c \in Callers},
                                manager : {NoManager}, error : {None}]]
    /\ \A c \in Callers : factory[c].arg \in FactoryArgs(c)

\* lines 744-755: the workflow is stored in self.workflow, or the call raises
StoreWorkflow(c) ==
    /\ pc = "factory"
    /\ factory[c].at = "new"
    /\ LET w == factory[c].arg
       IN  IF w.isa = "str"
           THEN /\ factory' = [factory EXCEPT ![c].at = "raised",
                                              ![c].error = "FileNotFoundError"]
                /\ UNCHANGED class_workflow
           ELSE IF w.isa = "dict"
           THEN /\ class_workflow' = w.value
                /\ factory' = [factory EXCEPT ![c].at = "stored"]
           ELSE /\ factory' = [factory EXCEPT ![c].at = "raised", ![c].error = "ValueError"]
                /\ UNCHANGED class_workflow
    /\ UNCHANGED <<workflow, description, usage_data, found, work_dir, writes,
                   clear_work_dir, history, entry, message,
                   send_message_function, connection_id, environ, client_reply,
                   sink_raises, pc, error, a_workflow, a_message, run_history, sender,
                   receiver, agent_history, idx, hpos, live, stage,
                   sequential_history, seq_agent_history, model_client, output,
                   result, chat_result, sink, received, calls, log>>

\* lines 757-770: the manager chosen by self.workflow.get("type"), built from
\* the call's own workflow argument; neither branch taken, the call returns None
SelectManager(c) ==
    /\ pc = "factory"
    /\ factory[c].at = "stored"
    /\ LET t == Get(class_workflow, "type")
           m == IF t = "autonomous"
                THEN Manager("AutoWorkflowManager", factory[c].arg.value)
                ELSE IF t = "sequential"
                THEN Manager("SequentialWorkflowManager", factory[c].arg.value)
                ELSE NoManager
       IN  factory' = [factory EXCEPT ![c].at = "returned", ![c].manager = m]
    /\ UNCHANGED <<workflow, description, usage_data, found, class_workflow,
                   work_dir, writes, clear_work_dir, history, entry, message,
                   send_message_function, connection_id, environ, client_reply,
                   sink_raises, pc, error, a_workflow, a_message, run_history, sender,
                   receiver, agent_history, idx, hpos, live, stage,
                   sequential_history, seq_agent_history, model_client, output,
                   result, chat_result, sink, received, calls, log>>

FactoryNext == \E c \in Callers : StoreWorkflow(c) \/ SelectManager(c)
FactorySpec == FactoryInit /\ [][FactoryNext]_vars

----------------------------------------------------------------------------
(* Properties *)

Last(q) == q[Len(q)]
LastContent(h) == IF h # <<>> THEN Last(h).message.content ELSE <<>>
Events(e) == SelectSeq(log, LAMBDA x : x.ev = e)
SenderNodes(wf) == {i \in 1..Len(wf.agents) : wf.agents[i].link = "sender"}
ReceiverNodes(wf) == {i \in 1..Len(wf.agents) : wf.agents[i].link = "receiver"}
StatusEnvelopes == SelectSeq(sink, LAMBDA x : x.type = "agent_status")
MessageEnvelopes == SelectSeq(sink, LAMBDA x : x.type = "agent_message")

\* the receive call a step has just made, when it made one
NewCall == received'[Len(received')]
Group(name) == name = receiver.name /\ receiver.class = "ExtendedGroupChatManager"

C2_ReplayRecordsNothing ==
    [][pc = "replay" => agent_history' = agent_history /\ sink' = sink]_vars

\* the delivery _populate_history is to make of a history message
ExpectedDelivery(msg) ==
    [to |-> IF msg.role = "user" THEN receiver.name ELSE sender.name,
     from |-> IF msg.role = "user" THEN sender.name ELSE receiver.name,
     message |-> Text(msg.content), request_reply |-> "False", silent |-> TRUE]

\* C3: whenever non-empty prior history is supplied for an autonomous workflow
\* (to run(), to the constructor, or through chat), then once the first live
\* exchange has started every message of the history has been delivered before
\* the first live message, in order, once, user messages from sender to
\* receiver and assistant messages from receiver to sender, with
\* requestReply = False and silent = True.
C3_HistoryReplayedBeforeLive ==
    (workflow.type = "autonomous" /\ history # <<>> /\ pc = "live"
        /\ Len(Events("initiate_chat")) = 1)
    => /\ Len(received) > Len(history)
       /\ \A k \in 1..Len(history) : received[k] = ExpectedDelivery(history[k])
       /\ received[Len(history) + 1].request_reply = "None"

\* the names of the receiver-linked nodes, in declaration order
ReceiverNames(wf) ==
    LET F[k \in 0..Len(wf.agents)] ==
            IF k = 0 THEN <<>>
            ELSE IF wf.agents[k].link = "receiver"
                 THEN Append(F[k - 1], wf.agents[k].agent.name)
                 ELSE F[k - 1]
    IN  F[Len(wf.agents)]

InitiatedNames == [k \in 1..Len(Events("initiate_chat")) |-> Events("initiate_chat")[k].who]

\* C4: when the receiver loop of an autonomous run is over, exactly one live
\* exchange has been started per receiver-linked node, in declaration order,
\* whatever the position of the sender-linked nodes.
C4_OneExchangePerReceiver ==
    (workflow.type = "autonomous" /\ pc = "generate_output")
    => InitiatedNames = ReceiverNames(workflow)


Autonomous == workflow.type = "autonomous"
Started == a_workflow # NoWorkflow

\* C5: an autonomous workflow with no sender-linked node never gets past the
\* sender check: run() fails with the configuration error (ValueError), no
\* receiver is built, nothing is replayed or exchanged, no transcript entry or
\* sink envelope exists, and neither run() nor chat returns a Message.
C5_NoSenderFailsFirst ==
    (Autonomous /\ SenderNodes(workflow) = {})
    => /\ pc \in {"validate", "run", "sender_loop", "failed"}
       /\ (pc = "failed" /\ Started) => error = "ValueError:not_defined"
       /\ (pc = "failed" /\ ~Started) => error = "ValidationError"
       /\ sender = NoAgent /\ receiver = NoAgent
       /\ log = <<>> /\ received = <<>>
       /\ agent_history = <<>> /\ sink = <<>>
       /\ result = NoResult /\ chat_result = NoResult

\* run() has failed on a workflow with receivers, history, and no sender
C5_Witness ==
    /\ Autonomous /\ SenderNodes(workflow) = {} /\ ReceiverNodes(workflow) # {}
    /\ history # <<>> /\ send_message_function
    /\ pc = "failed" /\ error = "ValueError:not_defined"

\* C6: an autonomous workflow with a sender but no receiver-linked node fails
\* with the configuration error (ValueError) raised after the receiver loop
\* has gone through every node: no exchange is started, the transcript and the
\* sink stay empty, and no summarization or usage aggregation takes place.
C6_NoReceiverFailsAfterLoop ==
    (Autonomous /\ SenderNodes(workflow) # {} /\ ReceiverNodes(workflow) = {})
    => /\ pc \in {"validate", "run", "sender_loop", "receiver_loop", "failed"}
       /\ (pc = "failed" /\ Started)
            => /\ error = "ValueError:not_defined"
               /\ idx > Len(workflow.agents)
               /\ sender # NoAgent
       /\ (pc = "failed" /\ ~Started) => error = "ValidationError"
       /\ receiver = NoAgent
       /\ \A k \in 1..Len(log) : log[k].ev = "load_sender"
       /\ received = <<>> /\ agent_history = <<>> /\ sink = <<>>
       /\ result = NoResult /\ chat_result = NoResult

\* run() has failed after the receiver loop of a workflow that has a sender only
C6_Witness ==
    /\ Autonomous /\ SenderNodes(workflow) # {} /\ ReceiverNodes(workflow) = {}
    /\ pc = "failed" /\ error = "ValueError:not_defined"
    /\ sender # NoAgent /\ idx > Len(workflow.agents)

\* C7: an autonomous workflow with more than one sender-linked node is
\* rejected: run() never proceeds to a replay or an exchange with it.
C7_TwoSendersRejected ==
    (Autonomous /\ Cardinality(SenderNodes(workflow)) > 1)
    => /\ Events("initiate_chat") = <<>>
       /\ pc \notin {"replay", "initiate", "live", "generate_output", "chat_output", "done"}

\* the manager's run() has returned its Message to the caller
RunReturned == pc \in {"done", "chat_output"}
ChatReturned == pc = "done" /\ entry = "chat"

UserContents(h) ==
    LET u == SelectSeq(h, LAMBDA x : x.message.role = "user")
    IN  [k \in 1..Len(u) |-> u[k].message.content]

\* C8 (as stated): with summary method "last" the final content is exactly
\* the content of the last transcript entry (the empty string for an empty
\* transcript), for the Message of run() and for the Message of chat.
C8_LastIsLastEntry ==
    workflow.summary_method = "last"
    => /\ RunReturned => result.content = LastContent(result.messages)
       /\ ChatReturned => chat_result.content = LastContent(chat_result.messages)

\* C8 (amended): with summary method "last" the Message of the manager's
\* run() has exactly the content of the last transcript entry (the empty
\* string for an empty transcript); the Message of chat has that content only
\* when the transcript holds no entry of role "user", and otherwise the last
\* entry's content followed by a newline and the contents of all role-"user"
\* entries joined by blank lines.
C8_LastIsLastEntryPlusUserContents ==
    workflow.summary_method = "last"
    => /\ RunReturned
            => /\ result.messages = ManagerHistory
               /\ result.content = LastContent(ManagerHistory)
       /\ ChatReturned
            => /\ chat_result.messages = ManagerHistory
               /\ chat_result.content =
                    IF UserContents(ManagerHistory) = <<>>
                    THEN LastContent(ManagerHistory)
                    ELSE LastContent(ManagerHistory) \o <<"\n">>
                         \o Join(UserContents(ManagerHistory), <<"\n", "\n">>)

\* chat has returned on a transcript of several entries whose last entry is
\* not all of the content
C8_Witness ==
    /\ workflow.summary_method = "last" /\ ChatReturned
    /\ Len(ManagerHistory) >= 2
    /\ result.content = LastContent(ManagerHistory)
    /\ result.content # ManagerHistory[1].message.content
    /\ chat_result.content # LastContent(ManagerHistory)

\* C9: with summary method "none" the final content is the empty string for
\* autonomous and sequential workflows and every transcript length, and the
\* summarizer that computes it makes no summarization call and sends no status
\* event (only the stages of a sequential run, which summarize with "llm", do).
C9_NoneIsEmpty ==
    workflow.summary_method = "none"
    => /\ RunReturned => result.content = <<>>
       /\ ChatReturned => chat_result.content = <<>>
       /\ \A k \in 1..Len(log) :
            log[k].ev = "summarize" => (~Autonomous /\ log[k].who = <<"auto">>)
       /\ Len(StatusEnvelopes) <= (IF Autonomous THEN 0 ELSE Len(Events("stage_start")))

\* a run with "none" has returned on a transcript of several entries
C9_Witness ==
    /\ workflow.summary_method = "none" /\ pc = "done"
    /\ Len(result.messages) >= 2
    /\ result.content = <<>>

Unrecognized == workflow.summary_method \notin WorkFlowSummaryMethod

\* C10 (as stated): a workflow whose summary method is not last / llm / none
\* is run without any error caused by the method, through run(), through
\* Workflow validation / run_workflow and through chat.
C10_UnrecognizedNeverRejected ==
    Unrecognized => error # "ValidationError"

\* C10 (amended): through the manager's run() an unrecognized summary method
\* raises no error and yields empty final content with no summarization call,
\* as "none" does; through Workflow validation (run_workflow and chat) the
\* workflow is rejected with a validation error before manager.run() starts.
C10_UnrecognizedEmptyOrRejected ==
    Unrecognized
    => IF entry \in {"run", "ctor"}
       THEN /\ error # "ValidationError"
            /\ Autonomous => error \notin {"TypeError", "AttributeError"}
            /\ RunReturned => result.content = <<>>
            /\ \A k \in 1..Len(log) :
                 log[k].ev = "summarize" => (~Autonomous /\ log[k].who = <<"auto">>)
       ELSE /\ pc \in {"validate", "failed"}
            /\ pc = "failed" => error = "ValidationError"
            /\ ~Started /\ log = <<>> /\ agent_history = <<>>
            /\ result = NoResult /\ chat_result = NoResult

\* a direct run with an unrecognized method has returned on a non-empty transcript
C10_Witness ==
    /\ Unrecognized /\ entry = "run" /\ pc = "done"
    /\ Len(result.messages) >= 2
    /\ result.content = <<>>


\* the description being built, the entries it declares (its own and its
\* members'), and the entries of the agents that were built from it
BuiltSpec == workflow.agents[1].agent
DeclaredEntries(spec) ==
    { spec.config_list[k] : k \in 1..Len(spec.config_list) }
    \cup UNION { { spec.agents[j].config_list[k] : k \in 1..Len(spec.agents[j].config_list) }
                 : j \in 1..Len(spec.agents) }
BuiltEntries(a) ==
    { a.config_list[k] : k \in 1..Len(a.config_list) }
    \cup UNION { { a.members[j].config_list[k] : k \in 1..Len(a.members[j].config_list) }
                 : j \in 1..Len(a.members) }
NoKey(llm) == "api_key" \notin DOMAIN llm
Usable(llm) == "api_key" \in DOMAIN llm /\ llm.api_key \notin {None, ""}
NoDefaultCredential == "OPENAI_API_KEY" \notin environ

\* C11: when an entry of an LLM agent has no api_key and OPENAI_API_KEY is not
\* set, building the agent fails with the missing-credential error (the
\* ValueError whose message names the agent), and no agent has been built.
C11_MissingKeyRaisesCredentialError ==
    (pc # "build" /\ NoDefaultCredential /\ \E llm \in DeclaredEntries(BuiltSpec) : NoKey(llm))
    => /\ pc = "failed"
       /\ error = "ValueError:api_key"
       /\ receiver = NoAgent

\* C12: without a process-wide credential, every model entry that reaches a
\* built agent has a usable api_key (present, not None, not empty).
C12_BuiltEntriesHaveCredential ==
    (pc = "built" /\ NoDefaultCredential)
    => \A llm \in BuiltEntries(receiver) : Usable(llm)


Sequential == workflow.type = "sequential"
StageStarts == Events("stage_start")
StageEnds == Events("stage_end")
NodeName(i) == workflow.agents[i].agent.name

\* C13: in a sequential run the stages are started in declaration order, one
\* at a time (a stage is started only when every earlier stage has returned),
\* each exactly once, and the run returns only after the last stage returned.
C13_StagesInOrderOneAtATime ==
    Sequential
    => /\ Len(StageStarts) <= Len(workflow.agents)
       /\ Len(StageStarts) \in {Len(StageEnds), Len(StageEnds) + 1}
       /\ \A k \in 1..Len(StageStarts) : StageStarts[k].who = NodeName(k)
       /\ \A k \in 1..Len(StageEnds) : StageEnds[k].who = NodeName(k)
       /\ pc = "stage_loop" => Len(StageStarts) = Len(StageEnds) /\ stage = Len(StageEnds) + 1
       /\ (pc \in {"sender_loop", "receiver_loop", "replay", "initiate", "live",
                   "generate_output", "stage_end"})
            => Len(StageStarts) = Len(StageEnds) + 1 /\ stage = Len(StageStarts)
       /\ RunReturned
            => Len(StageStarts) = Len(workflow.agents) /\ Len(StageEnds) = Len(workflow.agents)

\* a sequential run of three stages has returned
C13_Witness ==
    /\ Sequential /\ pc = "done"
    /\ Len(workflow.agents) = 3
    /\ Len(StageEnds) = 3

\* C14: in a sequential run only receiver-linked nodes are run as stages, and
\* a run that returns has run as many stages as there are receiver-linked nodes.
C14_OnlyReceiversAreStages ==
    Sequential
    => /\ \A k \in 1..Len(StageStarts) :
            \E i \in ReceiverNodes(workflow) : NodeName(i) = StageStarts[k].who
       /\ RunReturned => Len(StageStarts) = Cardinality(ReceiverNodes(workflow))

\* C15: the composer's transcript changes only when a stage returns, and then
\* by having the stage driver's transcript appended; the Message of the
\* sequential run carries the composer's transcript.
C15_TranscriptIsConcatenation ==
    [][ /\ seq_agent_history' # seq_agent_history => pc = "stage_end"
        /\ pc = "stage_end"
             => /\ seq_agent_history' = seq_agent_history \o agent_history
                /\ Len(seq_agent_history') = Len(seq_agent_history) + Len(agent_history)
        /\ (Sequential /\ pc = "stage_loop" /\ pc' \in {"done", "chat_output"})
             => result'.messages = seq_agent_history
      ]_vars

\* the second stage of a run has returned with a non-empty composer transcript
\* and a non-empty stage transcript
C15_Witness ==
    /\ Sequential /\ pc = "stage_loop" /\ stage = 3
    /\ Len(agent_history) >= 2
    /\ Len(seq_agent_history) > Len(agent_history)


\* sub occurs in s as a contiguous run of tokens that starts at position p
OccursAt(s, sub, p) == p + Len(sub) - 1 <= Len(s) /\ SubSeq(s, p, p + Len(sub) - 1) = sub
Contains(s, sub) == \E p \in 1..(Len(s) + 1) : OccursAt(s, sub, p)

RECURSIVE ContainsInOrder(_, _, _)
\* every text of subs occurs in s, one after the other, from position from on
ContainsInOrder(s, subs, from) ==
    IF subs = <<>> THEN TRUE
    ELSE \E p \in from..(Len(s) + 1) :
            /\ OccursAt(s, subs[1], p)
            /\ ContainsInOrder(s, Tail(subs), p + Len(subs[1]))

\* a stage's driver is running: a_message is the stage's input and
\* sequential_history holds the content of the earlier stages' results
InStage ==
    /\ Sequential
    /\ pc \in {"sender_loop", "receiver_loop", "replay", "initiate", "live", "generate_output"}

\* C16: stage 0's driver receives the caller's message unchanged; the input of
\* a later stage contains the literal content of every earlier stage's result,
\* in stage order, and the content of no transcript entry.
C16_StageInputEmbedsPriorOutputs ==
    InStage
    => IF Len(StageStarts) = 1
       THEN a_message = SeqMessage
       ELSE /\ Len(sequential_history) = Len(StageStarts) - 1
            /\ ContainsInOrder(a_message, sequential_history, 1)
            /\ \A k \in 1..Len(seq_agent_history) :
                 ~Contains(a_message, seq_agent_history[k].message.content)


\* C17: when a stage of a sequential run fails the run has failed with that
\* error and stays failed: no Message is returned to the caller, no later
\* stage is started, and no stage is started a second time.
C17_StageFailureAbortsRun ==
    /\ [](Sequential /\ error # None
            => /\ pc = "failed"
               /\ ~RunReturned /\ chat_result = NoResult
               /\ Len(StageStarts) <= Len(StageEnds) + 1
               /\ \A k \in 1..Len(StageStarts) : StageStarts[k].who = NodeName(k)
               /\ Len(sequential_history) = Len(StageEnds))
    /\ [][pc # "failed"]_vars

\* the second stage of three has failed after the first returned its result
C17_Witness ==
    /\ Sequential /\ pc = "failed" /\ error # None
    /\ Len(workflow.agents) = 3
    /\ Len(StageEnds) = 1 /\ Len(StageStarts) = 2
    /\ sequential_history # <<>>


\* the envelope of a transcript entry, and the delivery that matches it
Envelope(e) == [type |-> "agent_message", data |-> e, connection_id |-> connection_id]
DeliveredEntry(e) ==
    \E j \in 1..Len(received) :
        /\ received[j].to = e.recipient /\ received[j].from = e.sender
        /\ received[j].message.content = e.message.content

\* C18: a failure of the observer when it is handed an envelope never fails
\* the run: no run ends with the observer's exception, and the message of
\* every envelope handed to the observer has been delivered to its recipient.
C18_SinkFailureNeverFailsRun ==
    /\ error # "SinkError"
    /\ \A k \in 1..Len(MessageEnvelopes) : DeliveredEntry(MessageEnvelopes[k].data)

\* C19: every call of a wrapped agent's receive is followed by exactly one
\* call of the agent's own receive with the same recipient, sender, message,
\* request_reply and silent: the deliveries are the calls, in order.
C19_EveryReceiveDeliveredUnchanged ==
    received = calls

\* the transcript entries appended so far by the drivers that share the sink:
\* the driver of an autonomous run; in a sequential run the stages already
\* returned, then the driver of the stage in progress
AppendedSoFar ==
    IF Autonomous THEN agent_history
    ELSE seq_agent_history
         \o (IF Len(StageStarts) > Len(StageEnds) THEN agent_history ELSE <<>>)

\* C20: with an observer attached, the agent_message envelopes handed to the
\* sink are, entry for entry and in order, the transcript entries appended so
\* far, each under the run's connection id.
C20_EnvelopesMirrorTranscript ==
    send_message_function
    => /\ Len(MessageEnvelopes) = Len(AppendedSoFar)
       /\ \A k \in 1..Len(AppendedSoFar) : MessageEnvelopes[k] = Envelope(AppendedSoFar[k])

\* a run with an observer has returned after several entries and a status event
C20_Witness ==
    /\ send_message_function /\ pc = "done"
    /\ Len(MessageEnvelopes) >= 3
    /\ StatusEnvelopes # <<>>
    /\ Len(sink) > Len(MessageEnvelopes)


----------------------------------------------------------------------------
(* Termination.  The calls are synchronous: a step that can be taken is    *)
(* taken, which is weak fairness of Next.                                  *)

\* the calls whose termination is checked: workflows of at most MaxLiveAgents nodes
LiveInit == Init /\ Len(workflow.agents) <= MaxLiveAgents

FaultSpec == FaultInit /\ [][Next]_vars

\* runs whose agents' code writes files, made by callers that pass either
\* value of clear_work_dir to the manager they construct themselves
WorkDirCalls ==
    { [c EXCEPT !.writes = w, !.clear_work_dir = k] :
        c \in {d \in Calls : Len(d.workflow.agents) <= MaxLiveAgents /\ d.raises = {}},
        w \in BOOLEAN, k \in BOOLEAN }
WorkDirInit ==
    /\ Start(WorkDirCalls)
    /\ entry \in {"chat", "run_workflow"} => clear_work_dir
WorkDirSpec == WorkDirInit /\ [][Next]_vars

LiveSpec == LiveInit /\ [][Next]_vars /\ WF_vars(Next)

Terminal == pc \in {"done", "failed"}

\* C21: every run reaches DONE or FAILED, and in a live exchange each
\* participant has answered at most as many times as its own
\* max_consecutive_auto_reply allows.
C21_ExchangeTerminates ==
    /\ <>Terminal
    /\ [](pc = "live"
            => /\ live.cnt.sender <= sender.max_consecutive_auto_reply
               /\ live.cnt.receiver <= receiver.max_consecutive_auto_reply)


\* an exchange that no termination message ended has run to the ceilings,
\* and the run has returned
C21_Witness ==
    /\ Autonomous /\ pc = "done"
    /\ Len(agent_history) >= 3
    /\ \A k \in 1..Len(agent_history) : ~is_termination_msg(agent_history[k].message.content)


\* the participants of the exchange: sender, receiver, then the receiver's members
Participants == <<sender, receiver>> \o receiver.members
Answers(a) == {k \in 1..Len(agent_history) : agent_history[k].sender = a.name}

\* an AutoWorkflowManager.run() has just returned its Message
AutoReturned == (Autonomous /\ RunReturned) \/ (Sequential /\ pc = "stage_end")

\* C22: the usage table of a returned autonomous run has one record per
\* participant: the sender, the receiver, then every member of a group
\* receiver in membership order; totals are numbers, and 0 for a participant
\* without a model client or without usage data.
C22_UsageTableInOrder ==
    AutoReturned
    => /\ error = None
       /\ Len(result.usage) = Len(Participants)
       /\ Len(result.usage) = 2 + Len(receiver.members)
       /\ \A k \in 1..Len(Participants) :
            /\ result.usage[k].agent = Participants[k].name
            /\ result.usage[k].total_cost \in Nat
            /\ result.usage[k].total_tokens \in Nat
            /\ (~Participants[k].client \/ Answers(Participants[k]) = {})
                 => result.usage[k].total_cost = 0 /\ result.usage[k].total_tokens = 0

\* a run with a group receiver has returned: one member has usage, another
\* has a client and no usage data
C22_Witness ==
    /\ Autonomous /\ pc = "done"
    /\ Len(receiver.members) >= 2
    /\ \E i, j \in 3..Len(result.usage) :
         /\ result.usage[i].total_cost > 0
         /\ result.usage[j].total_cost = 0 /\ Participants[j].client


\* the phase of the autonomous run the manager is in
Phase ==
    CASE pc \in {"sender_loop", "receiver_loop"} -> "BUILD"
      [] pc = "replay" -> "REPLAY"
      [] pc \in {"initiate", "live"} -> "LIVE"
      [] pc = "generate_output" -> "SUMMARIZE"
      [] pc = "stage_end" \/ (Autonomous /\ pc \in {"done", "chat_output"}) -> "DONE"
      [] OTHER -> "NONE"

\* the events of AutoWorkflowManager.run in the log (a summary made by the
\* chat manager or the sequential manager afterwards is not one of them)
RunLog ==
    SelectSeq(log, LAMBDA x : x.ev = "summarize" => x.who = <<"auto">>)

\* log positions of the events of a phase
LogAt(evs) == {k \in 1..Len(RunLog) : RunLog[k].ev \in evs}

\* C23: an autonomous run goes BUILD, REPLAY, LIVE (once per pass of the
\* receiver loop), SUMMARIZE, DONE: an exchange begins only from BUILD or a
\* completed replay, with the whole prior history replayed; summarization
\* begins only from BUILD with no exchange in progress; the usage table is
\* computed after the summary and the result exists only after both; after
\* SUMMARIZE no earlier phase is entered again.
C23_PhasesInOrder ==
    /\ [](Phase = "LIVE" => sender # NoAgent /\ receiver # NoAgent /\ hpos > Len(run_history))
    /\ [](Phase = "REPLAY" => sender # NoAgent /\ receiver # NoAgent /\ live = NoLive)
    /\ [](Phase = "SUMMARIZE" => live = NoLive /\ receiver # NoAgent)
    /\ [](Autonomous /\ result # NoResult
            => /\ Phase \in {"DONE", "NONE"}
               /\ LogAt({"usage"}) # {}
               /\ \A u \in LogAt({"usage"}) :
                    \A k \in LogAt({"summarize", "load_sender", "load_receiver",
                                    "replay", "initiate_chat"}) : k < u)
    /\ [][/\ (Phase' = "REPLAY" /\ Phase # "REPLAY" => Phase = "BUILD")
          /\ (Phase' = "LIVE" /\ Phase # "LIVE" => Phase \in {"BUILD", "REPLAY"})
          /\ (Phase' = "SUMMARIZE" => Phase = "BUILD" /\ result' = result)
          /\ (Phase = "SUMMARIZE" => Phase' \notin {"BUILD", "REPLAY", "LIVE"})
          /\ (Phase' = "DONE" /\ Phase # "DONE"
                => /\ Phase = "SUMMARIZE"
                   /\ log'[Len(log')].ev = "usage"
                   /\ (a_workflow.summary_method = "llm"
                         => log'[Len(log') - 1].ev = "summarize"))
          /\ (Phase = "DONE" /\ Autonomous => Phase' \in {"DONE", "NONE"} /\ RunLog' = RunLog)]_vars

\* a run with prior history and an llm summary has returned after a replay and
\* a live exchange
C23_Witness ==
    /\ Autonomous /\ pc = "done"
    /\ run_history # <<>>
    /\ a_workflow.summary_method = "llm"
    /\ LogAt({"replay"}) # {} /\ LogAt({"initiate_chat"}) # {} /\ LogAt({"summarize"}) # {}


\* run() failed while sanitizing or building an agent of the tree
BuildFailed == pc = "failed" /\ Started /\ error \in {"ValidationError", MissingCredential(NoAgent)}

\* C24: when building an agent of the tree fails, run() raises the build
\* error and the manager holds no built sender or receiver, its transcript is
\* empty, and nothing was replayed, exchanged or delivered to the sink.
C24_BuildFailureLeavesNothing ==
    (Autonomous /\ BuildFailed)
    => /\ sender = NoAgent /\ receiver = NoAgent
       /\ agent_history = <<>> /\ sink = <<>> /\ received = <<>>
       /\ Events("replay") = <<>> /\ Events("initiate_chat") = <<>>

\* a run whose second receiver cannot be built has failed after the first
\* receiver's exchange
C24_PartialTopology ==
    /\ Autonomous /\ BuildFailed
    /\ sender # NoAgent /\ receiver # NoAgent
    /\ agent_history # <<>> /\ sink # <<>>
    /\ Events("initiate_chat") # <<>>


\* C25: building a description that holds a type outside assistant /
\* userproxy / groupchat, at the top level or at any depth inside a group,
\* fails with the unknown-agent-type error (load's ValueError) and builds no
\* agent.
C25_UnknownTypeRaisesUnknownAgentType ==
    (pc # "build" /\ BuiltSpec \in UnknownTypeAgents)
    => /\ pc = "failed"
       /\ error = "ValueError:unknown_agent_type"
       /\ receiver = NoAgent


\* C26: building a groupchat description that has no child descriptions
\* fails and builds no coordinator, so every coordinator that was built has at
\* least one member.
C26_EmptyGroupIsNotBuilt ==
    /\ (pc # "build" /\ BuiltSpec.type = "groupchat" /\ BuiltSpec.agents = <<>>)
         => pc = "failed" /\ receiver = NoAgent
    /\ (pc = "built" /\ receiver.class = "ExtendedGroupChatManager")
         => /\ Len(receiver.members) >= 1
            /\ \A k \in 1..Len(receiver.members) :
                 receiver.members[k].class = "ExtendedGroupChatManager"
                   => Len(receiver.members[k].members) >= 1


\* C27: the coordinator built from a groupchat description has the built
\* children as its members, in declaration order, and its name and termination
\* predicate are those of the description's sanitized config.
C27_CoordinatorTakesGroupConfig ==
    (pc = "built" /\ BuiltSpec.type = "groupchat")
    => /\ receiver.class = "ExtendedGroupChatManager"
       /\ Len(receiver.members) = Len(BuiltSpec.agents)
       /\ \A k \in 1..Len(receiver.members) :
            /\ receiver.members[k].built_from = BuiltSpec.agents[k].name
            /\ receiver.members[k].name = BuiltSpec.agents[k].name
       /\ receiver.name = BuiltSpec.name
       /\ receiver.is_termination_msg = sanitize_agent(BuiltSpec).agent.is_termination_msg


\* C28: a plain agent whose is_termination_msg is null, False or absent is
\* built, with the default predicate, which holds of a content exactly when
\* the content without its trailing whitespace ends with TERMINATE; a
\* configured predicate is kept.
C28_UnsetPredicateGetsEndsWithDefault ==
    (pc # "build" /\ BuiltSpec \in PredicateAgents /\ BuiltSpec.type # "groupchat")
    => /\ pc = "built"
       /\ IF "is_termination_msg" \in DOMAIN BuiltSpec /\ BuiltSpec.is_termination_msg = "configured"
          THEN receiver.is_termination_msg = "configured"
          ELSE /\ receiver.is_termination_msg = default_predicate
               /\ is_termination_msg(message)
                    <=> LET r == rstrip(message)
                        IN  r # <<>> /\ r[Len(r)] = "TERMINATE"


\* C29: every model entry of a built agent (its own and its members') has
\* only valid keys, each with the value the declared entry at the same
\* position has for it, and sanitizing it again leaves it unchanged.
C29_ForwardedEntriesAreAllowListed ==
    pc = "built"
    => LET Kept(e, d) ==
               /\ DOMAIN e \subseteq (DOMAIN d \cap valid_keys)
               /\ \A f \in DOMAIN e : e[f] = d[f]
               /\ sanitize_model(e) = e
           KeptAll(a, spec) ==
               /\ Len(a.config_list) = Len(spec.config_list)
               /\ \A k \in 1..Len(a.config_list) : Kept(a.config_list[k], spec.config_list[k])
       IN  /\ KeptAll(receiver, BuiltSpec)
           /\ \A j \in 1..Len(receiver.members) :
                KeptAll(receiver.members[j], BuiltSpec.agents[j])

\* an agent was built from an entry that declares fields outside the valid
\* keys, and from one whose api_key is empty
C29_Witness ==
    /\ pc = "built"
    /\ \E k \in 1..Len(BuiltSpec.config_list) :
         /\ "description" \in DOMAIN BuiltSpec.config_list[k]
         /\ DOMAIN receiver.config_list[k] = {"model", "api_key", "base_url"}
    /\ \E k \in 1..Len(BuiltSpec.config_list) :
         /\ "api_key" \in DOMAIN BuiltSpec.config_list[k]
         /\ "api_key" \notin DOMAIN receiver.config_list[k]


\* C30: whatever the code_execution_config of a description is (a mode, a
\* disabled value, an unrecognized or non-symbolic value, or absent), the
\* agent is built: "local" and "docker" give the pool's profile of that name
\* and every other value gives no code execution.
C30_CodeExecutionNeverFails ==
    (pc # "build" /\ BuiltSpec \in CodeExecAgents)
    => /\ pc = "built"
       /\ receiver.code_execution_config =
            IF /\ "code_execution_config" \in DOMAIN BuiltSpec
               /\ BuiltSpec.code_execution_config \in {"local", "docker"}
            THEN code_executor_pool[BuiltSpec.code_execution_config]
            ELSE "False"


\* C31: a description that was built once is built again, with the same
\* sanitized configuration as the first time.
C31_SecondBuildEqualsFirst ==
    (receiver # NoAgent /\ pc \notin {"build", "built"})
    => pc = "rebuilt" /\ sender = receiver


C33_StatusEventIffObserver ==
    (workflow.summary_method = "llm" /\ entry = "run" /\ sink_raises = {})
    => /\ ~send_message_function
            => /\ sink = <<>>
               /\ error # "TypeError"
               /\ (Autonomous /\ pc = "done") => result.content = client_reply
       /\ (Autonomous /\ pc = "done")
            => (StatusEnvelopes # <<>> <=> send_message_function)


RECURSIVE ValuesOf(_, _)
\* every value the key is associated with, at any depth of the structure
ValuesOf(data, key) ==
    IF data.t = "dict"
    THEN UNION { (IF data.items[i].k = key THEN {data.items[i].val} ELSE {})
                 \cup ValuesOf(data.items[i].val, key) : i \in 1..Len(data.items) }
    ELSE IF data.t = "list"
    THEN UNION { ValuesOf(data.items[i], key) : i \in 1..Len(data.items) }
    ELSE {}

\* C35: find_key_value returns a value associated with the key whenever the key
\* occurs anywhere in the structure with a non-null value, and None only when
\* the key occurs nowhere or only with null values.
C35_FindsAnyNonNullOccurrence ==
    pc = "found"
    => LET vs == ValuesOf(usage_data, message[1]) \ {Null}
       IN  IF vs = {} THEN found = Null ELSE found \in vs

\* a null value for the key in an outer dict hides the value a nested dict holds
C35_OuterNullHidesNested ==
    /\ pc = "found"
    /\ found = Null
    /\ Num(3) \in ValuesOf(usage_data, message[1])

\* the manager kind __new__ selects for a workflow argument on its own
KindFor(w) ==
    IF Get(w.value, "type") = "autonomous" THEN "AutoWorkflowManager"
    ELSE IF Get(w.value, "type") = "sequential" THEN "SequentialWorkflowManager"
    ELSE None

\* C36: the factory never yields a null manager: type autonomous gives an
\* AutoWorkflowManager, type sequential a SequentialWorkflowManager, and any
\* other or missing type is a configuration error raised at construction.
C36_FactoryNeverYieldsNull ==
    \A c \in DOMAIN factory :
        /\ factory[c].at = "returned"
              => /\ factory[c].manager # NoManager
                 /\ Get(factory[c].arg.value, "type") \in WorkFlowType
                 /\ factory[c].manager.kind = KindFor(factory[c].arg)
        /\ (factory[c].at \in {"returned", "raised"}
             /\ Get(factory[c].arg.value, "type") \notin WorkFlowType)
              => factory[c].error # None

\* a single call with a dict of another type returns None and raises nothing
C36_NullManager ==
    /\ factory # <<>>
    /\ factory[2].at = "new"
    /\ factory[1].at = "returned"
    /\ factory[1].arg.value = [name |-> "wf1", type |-> "custom"]
    /\ factory[1].manager = NoManager
    /\ factory[1].error = None

\* C37: the kind of manager a call returns depends only on the type of the
\* workflow passed to that call, and the manager holds that same workflow,
\* however two constructions interleave.
C37_ChoiceDependsOnOwnWorkflow ==
    \A c \in DOMAIN factory :
        factory[c].at = "returned"
        => /\ factory[c].manager.kind = KindFor(factory[c].arg)
           /\ factory[c].manager # NoManager
                => factory[c].manager.workflow = factory[c].arg.value

\* a sequential manager holding an autonomous workflow
C37_KindOfTheOtherCall ==
    /\ factory # <<>>
    /\ factory[1].at = "returned"
    /\ Get(factory[1].arg.value, "type") = "autonomous"
    /\ factory[1].manager = Manager("SequentialWorkflowManager", factory[1].arg.value)

\* C38: one chat request on an autonomous workflow with summary method llm
\* runs the workflow once, makes the external summarization call exactly once
\* and puts exactly one "summarizing" status event on the message queue.
C38_OneSummaryPerChatRequest ==
    (entry = "chat" /\ Autonomous /\ workflow.summary_method = "llm"
     /\ pc = "done" /\ error = None)
    => /\ Len(Events("usage")) = 1
       /\ Len(Events("summarize")) = 1
       /\ Len(StatusEnvelopes) = 1

\* run() has summarized and announced it, and chat does both again
C38_SummarizedTwice ==
    /\ entry = "chat" /\ Autonomous /\ workflow.summary_method = "llm"
    /\ pc = "done" /\ error = None
    /\ Len(Events("usage")) = 1
    /\ Events("summarize") = <<Event("summarize", <<"auto">>), Event("summarize", <<"chat">>)>>
    /\ Len(StatusEnvelopes) = 2

\* C39: chat returns a response Message (role assistant, content computed by
\* the workflow's summary method) for every workflow type and every summary
\* method, whenever the underlying workflow run succeeds.
C39_ChatAnswersEverySuccessfulRun ==
    LET \* workflow_manager.run has returned its Message (a stage's Message
        \* carries the stage's usage, the composer's carries none)
        ChatRunReturned == result.role = "assistant" /\ (Sequential => result.usage = <<>>)
    IN  (entry = "chat" /\ ChatRunReturned /\ pc # "chat_output")
        => /\ pc = "done" /\ error = None
           /\ chat_result.role = "assistant"
           /\ chat_result.summary_method = workflow.summary_method
           /\ (workflow.summary_method = "none" => chat_result.content = <<>>)

\* a sequential run with summary method llm has returned its Message, and
\* chat fails on workflow_manager.receiver.client
C39_SequentialLlmFails ==
    /\ entry = "chat" /\ Sequential /\ workflow.summary_method = "llm"
    /\ result.role = "assistant" /\ result.usage = <<>>
    /\ result.content = client_reply
    /\ pc = "failed" /\ error = "AttributeError"
    /\ chat_result = NoResult

====
